---------------------------- MODULE Spec2Model ----------------------------
(***************************************************************************)
(* Model of the Pure Data patch core of puredata-mcp:                      *)
(*   - the inter-module linker (src/wiring/bus-injector.ts) acting on the  *)
(*     combined rack lists laid out by buildCombinedPatch;                 *)
(*   - the .pd parser, serializer and patch builder (core/parser.ts,       *)
(*     core/serializer.ts).                                                *)
(* Strings that the code concatenates or compares (module ids, port names, *)
(* bus names) are sequences of atoms, so that concatenation is real        *)
(* concatenation and not an opaque pairing.                                *)
(***************************************************************************)
EXTENDS Integers, Sequences, FiniteSets, TLC

VARIABLES
    allNodes,        \* combined node list (PatchNodeSpec[]), mutated in place
    allConnections,  \* combined connection list (PatchConnectionSpec[])
    modules,         \* WiringModule[] handed to applyWiring
    nodeOffset,      \* buildCombinedPatch's running offset of the next module
    rackId,          \* which rack layout the lists were built from
    wiring,          \* WireSpec[] of the applyWiring call (<<>> before it)
    preNodes,        \* allNodes as it was when applyWiring was entered
    preConns,        \* allConnections as it was when applyWiring was entered
    thrown,          \* "none" or the error applyWiring threw
    phase,           \* "layout" before the call, "called" after it
    patchSpec,       \* PatchSpec handed to buildPatch
    source,          \* .pd text handed to the first parsePatch
    ast1,            \* outcome of parsePatch(source)
    pdText,          \* serializePatch(ast1)
    ast2,            \* outcome of parsePatch(pdText)
    stage            \* how far the text pipeline has run

wvars == <<allNodes, allConnections, modules, nodeOffset, rackId, wiring, preNodes,
           preConns, thrown, phase>>

tvars == <<patchSpec, source, ast1, pdText, ast2, stage>>

vars == <<wvars, tvars>>

-----------------------------------------------------------------------------
(* Bounds of the model *)

\* longest wire list passed to applyWiring
MaxWires == 2

-----------------------------------------------------------------------------
(* Generic helpers *)

\* JavaScript `undefined` for an optional numeric field (ioNodeIndex)
Undefined == -1

Range(s) == {s[i] : i \in 1..Len(s)}

SeqsUpTo(S, n) == UNION {[1..k -> S] : k \in 0..n}

-----------------------------------------------------------------------------
(* Port model: PortInfo, WiringModule, WireSpec *)

Port(n, t, d, ni, p, io) ==
    [name |-> n, type |-> t, direction |-> d, nodeIndex |-> ni, port |-> p,
     ioNodeIndex |-> io]

Wire(f, o, t, i) == [from |-> f, output |-> o, to |-> t, input |-> i]

Conn(f, o, t, i) == [from |-> f, outlet |-> o, to |-> t, inlet |-> i]

Node(ty, nm, as, px, py) == [type |-> ty, name |-> nm, args |-> as, x |-> px, y |-> py]

\* result of Array.prototype.find when no element matches
NoPort == [name |-> <<>>, type |-> "undefined", direction |-> "undefined",
           nodeIndex |-> Undefined, port |-> Undefined, ioNodeIndex |-> Undefined]

\* result of Map.prototype.get when the key is absent
NoModule == [id |-> <<>>, ports |-> <<>>, nodeOffset |-> Undefined]

\* JavaScript `undefined` for an optional string field (a name, a title)
NoString == <<"<undefined>">>

\* ParseContext.root === null
Null == -1

\* no parsePatch call has been made
NotParsed == [status |-> "none", root |-> Null, canvases |-> <<>>]

\* a PatchSpec without nodes, connections or title
EmptySpec == [title |-> NoString, nodes |-> <<>>, connections |-> <<>>]

\* the text pipeline is not part of the behaviour
TextIdle ==
    /\ patchSpec = EmptySpec /\ source = <<>> /\ ast1 = NotParsed
    /\ pdText = <<>> /\ ast2 = NotParsed /\ stage = "idle"

\* the rack build is not part of the behaviour
RackIdle ==
    /\ allNodes = <<>> /\ allConnections = <<>> /\ modules = <<>>
    /\ nodeOffset = 0 /\ rackId = 0 /\ wiring = <<>> /\ preNodes = <<>>
    /\ preConns = <<>> /\ thrown = "none" /\ phase = "idle"

-----------------------------------------------------------------------------
(* Connection helpers (bus-injector.ts) *)

\* mutant: every entry that starts or ends at nodeIdx is dropped
removeConnectionsTouching(conns, nodeIdx) ==
    LET Keep(c) == ~(c.from = nodeIdx \/ c.to = nodeIdx)
    IN  SelectSeq(conns, Keep)

\* removeConnectionsTo: drops every entry whose destination is nodeIdx
\* mutant: connections into the nodes before nodeIdx are removed as well
removeConnectionsUpTo(conns, nodeIdx) ==
    SelectSeq(conns, LAMBDA c : c.to > nodeIdx)

removeConnectionsTo(conns, nodeIdx) ==
    LET Keep(c) == ~((c.from = nodeIdx \/ c.to = nodeIdx) /\ c.to = nodeIdx)
    IN  SelectSeq(conns, Keep)

\* mutant: the entries going the other way, from toIdx to fromIdx, are dropped
removeConnectionsBackward(conns, fromIdx, toIdx) ==
    LET Keep(c) == ~(c.from = toIdx /\ c.to = fromIdx)
    IN  SelectSeq(conns, Keep)

\* mutant: every entry sourced at fromIdx is dropped, wherever it goes
removeConnectionsFromAny(conns, fromIdx, toIdx) ==
    LET Keep(c) == ~(c.from = fromIdx)
    IN  SelectSeq(conns, Keep)

\* removeConnectionsBetween: drops every entry going from fromIdx to toIdx
removeConnectionsBetween(conns, fromIdx, toIdx) ==
    LET Keep(c) == ~(c.from = fromIdx /\ c.to = toIdx)
    IN  SelectSeq(conns, Keep)

\* mutant: only the first entry sourced at oldFrom is re-sourced
redirectFirstConnectionFrom(conns, oldFrom, newFrom) ==
    LET hits == {i \in 1..Len(conns) : conns[i].from = oldFrom}
    IN  [i \in 1..Len(conns) |->
            IF i \in hits /\ \A j \in hits : i <= j
            THEN [conns[i] EXCEPT !.from = newFrom]
            ELSE conns[i]]

\* redirectConnectionsFrom: every entry sourced at oldFrom is re-sourced at newFrom
redirectConnectionsFrom(conns, oldFrom, newFrom) ==
    [i \in 1..Len(conns) |->
        IF conns[i].from = oldFrom
        THEN [conns[i] EXCEPT !.from = newFrom]
        ELSE conns[i]]

-----------------------------------------------------------------------------
(* Validation (validateWiring) *)

\* mutant: the id uniqueness loop is missing
HasDuplicateIdSkipped(mods) == FALSE

\* the idSet loop: some id occurs twice in the descriptor list
HasDuplicateId(mods) ==
    \E i, j \in 1..Len(mods) : i < j /\ mods[i].id = mods[j].id

\* new Map(modules.map(m => [m.id, m])).get(id): the last entry with that key
ModuleMapGet(mods, id) ==
    IF \E i \in 1..Len(mods) : mods[i].id = id
    THEN mods[CHOOSE i \in 1..Len(mods) :
                 mods[i].id = id /\ \A j \in (i+1)..Len(mods) : mods[j].id # id]
    ELSE NoModule

\* ports.find(p => p.name === name && p.direction === dir): the first match
FindPort(ports, name, dir) ==
    IF \E i \in 1..Len(ports) : ports[i].name = name /\ ports[i].direction = dir
    THEN ports[CHOOSE i \in 1..Len(ports) :
                  /\ ports[i].name = name /\ ports[i].direction = dir
                  /\ \A j \in 1..(i-1) :
                        ~(ports[j].name = name /\ ports[j].direction = dir)]
    ELSE NoPort

\* mutant: the lookup matches the name alone and ignores the direction
FindPortAnyDirection(ports, name, dir) ==
    IF \E i \in 1..Len(ports) : ports[i].name = name
    THEN ports[CHOOSE i \in 1..Len(ports) :
                  /\ ports[i].name = name
                  /\ \A j \in 1..(i-1) : ports[j].name # name]
    ELSE NoPort

\* the port lookup of the validation loop
ValidateFindPort(ports, name, dir) == FindPort(ports, name, dir)

\* mutant: the self-wiring check is missing
SelfWiredSkipped(wire) == FALSE

\* wire.from === wire.to
SelfWired(wire) == wire.from = wire.to

\* mutant: the type check is missing
TypeMismatchSkipped(srcPort, dstPort) == FALSE

\* srcPort.type !== dstPort.type
TypeMismatch(srcPort, dstPort) == srcPort.type # dstPort.type

\* `${wire.to}::${wire.input}`
InputKey(wire) == wire.to \o <<"::">> \o wire.input

\* mutant: the duplicate-input check is missing
AlreadyWiredSkipped(inputTargets, inputKey) == FALSE

\* inputTargets.has(inputKey)
AlreadyWired(inputTargets, inputKey) == inputKey \in inputTargets

\* the per-wire loop of validateWiring from wire k on; "none" when no throw
RECURSIVE ValidateFrom(_, _, _, _)
ValidateFrom(mods, ws, k, inputTargets) ==
    IF k > Len(ws) THEN "none"
    ELSE
      LET wire    == ws[k]
          srcMod  == ModuleMapGet(mods, wire.from)
          dstMod  == ModuleMapGet(mods, wire.to)
          srcPort == ValidateFindPort(srcMod.ports, wire.output, "output")
          dstPort == ValidateFindPort(dstMod.ports, wire.input, "input")
      IN  IF srcMod = NoModule THEN "source module not found"
          ELSE IF dstMod = NoModule THEN "destination module not found"
          ELSE IF SelfWired(wire) THEN "cannot be wired to itself"
          ELSE IF srcPort = NoPort THEN "output port not found"
          ELSE IF dstPort = NoPort THEN "input port not found"
          ELSE IF TypeMismatch(srcPort, dstPort) THEN "type mismatch"
          ELSE IF AlreadyWired(inputTargets, InputKey(wire)) THEN "duplicate input"
          ELSE ValidateFrom(mods, ws, k + 1, inputTargets \cup {InputKey(wire)})

\* mutant: only the module list is checked, the wires are not looked at
validateIdsOnly(mods, ws) ==
    IF HasDuplicateId(mods) THEN "Duplicate module ID" ELSE "none"

validateWiring(mods, ws) ==
    IF HasDuplicateId(mods) THEN "Duplicate module ID"
    ELSE ValidateFrom(mods, ws, 1, {})

-----------------------------------------------------------------------------
(* Apply phase (applyWiring, the loop over the validated wires) *)

\* mutant: the bus is named after the destination module and input port
BusNameOfDestination(wire) == wire.to \o <<"__">> \o wire.input

\* `${wire.from}__${wire.output}`
BusName(wire) == wire.from \o <<"__">> \o wire.output

\* port.ioNodeIndex !== undefined ? port.ioNodeIndex + mod.nodeOffset : undefined
IoAbsolute(port, mod) ==
    IF port.ioNodeIndex # Undefined THEN port.ioNodeIndex + mod.nodeOffset
    ELSE Undefined

\* audioBuses.get(busName): the entry recorded for that bus name
BusGet(buses, busName) == CHOOSE b \in buses : b.name = busName

\* mutant: a bus is never found, so every wire creates its own pair
BusHasNever(buses, busName) == FALSE

\* audioBuses.has(busName)
BusHas(buses, busName) == \E b \in buses : b.name = busName

\* the ioNode disconnect guarded by disconnectedOutputs (source side)
DisconnectSource(st, ioFromAbsolute) ==
    IF ioFromAbsolute # Undefined /\ ioFromAbsolute \notin st.disc
    THEN [st EXCEPT !.conns = removeConnectionsTo(st.conns, ioFromAbsolute),
                    !.disc  = st.disc \cup {ioFromAbsolute}]
    ELSE st

\* mutant: the index is taken one-based
NextIndexOneBased(nodes) == Len(nodes) + 1

\* `allNodes.length`, read just before a push: the index the pushed node gets
NextIndex(nodes) == Len(nodes)

\* mutant: a node equal to one already in the list is not added again
PushNodeUnique(nodes, node) ==
    IF node \in Range(nodes) THEN nodes ELSE Append(nodes, node)

\* mutant: the relay node is inserted at the front (unshift), not appended
PushNodeFront(nodes, node) == <<node>> \o nodes

\* allNodes.push(node): the new node takes the index allNodes.length
PushNode(nodes, node) == Append(nodes, node)

\* the audio branch of the loop body; node indices are 0-based
ApplyAudioWire(st, wire, srcPort, dstPort, fromAbsolute, toAbsolute, ioFromAbsolute, ioToAbsolute) ==
    LET busName  == BusName(wire)
        fresh    == ~BusHas(st.buses, busName)
        s1       == IF fresh THEN DisconnectSource(st, ioFromAbsolute) ELSE st
        throwIdx == NextIndex(s1.nodes)
        n1       == PushNode(s1.nodes, Node("undefined", <<"throw~">>, <<busName>>, 50, 10))
        c1       == Append(s1.conns, Conn(fromAbsolute, srcPort.port, throwIdx, 0))
        newCatch == NextIndex(n1)
        n2       == PushNode(n1, Node("undefined", <<"catch~">>, <<busName>>, 50, 40))
        s2       == IF fresh
                    THEN [s1 EXCEPT !.nodes = n2, !.conns = c1,
                                    !.buses = s1.buses \cup
                                       {[name |-> busName, throwIdx |-> throwIdx,
                                         catchIdx |-> newCatch]}]
                    ELSE s1
        catchIdx == IF fresh THEN newCatch ELSE BusGet(st.buses, busName).catchIdx
    IN  IF ioToAbsolute # Undefined
        THEN [s2 EXCEPT !.conns = redirectConnectionsFrom(s2.conns, ioToAbsolute, catchIdx)]
        ELSE [s2 EXCEPT !.conns = Append(s2.conns, Conn(catchIdx, 0, toAbsolute, dstPort.port))]

\* the control branch of the loop body
ApplyControlWire(st, wire, srcPort, dstPort, fromAbsolute, toAbsolute, ioFromAbsolute, ioToAbsolute) ==
    LET busName    == BusName(wire)
        s1         == DisconnectSource(st, ioFromAbsolute)
        sendIdx    == NextIndex(s1.nodes)
        n1         == PushNode(s1.nodes, Node("undefined", <<"send">>, <<busName>>, 50, 10))
        c1         == Append(s1.conns, Conn(fromAbsolute, srcPort.port, sendIdx, 0))
        receiveIdx == NextIndex(n1)
        n2         == PushNode(n1, Node("undefined", <<"receive">>, <<busName>>, 50, 40))
        c2         == IF ioToAbsolute # Undefined
                      THEN removeConnectionsBetween(c1, ioToAbsolute, toAbsolute)
                      ELSE c1
    IN  [s1 EXCEPT !.nodes = n2,
                   !.conns = Append(c2, Conn(receiveIdx, 0, toAbsolute, dstPort.port))]

\* one iteration of `for (const wire of wiring)` in applyWiring.  Reading a
\* field of an undefined module or port raises a TypeError, which ends the call.
ApplyWire(st, mods, wire) ==
    LET srcMod  == ModuleMapGet(mods, wire.from)
        dstMod  == ModuleMapGet(mods, wire.to)
        srcPort == FindPort(srcMod.ports, wire.output, "output")
        dstPort == FindPort(dstMod.ports, wire.input, "input")
        fromAbsolute   == srcPort.nodeIndex + srcMod.nodeOffset
        toAbsolute     == dstPort.nodeIndex + dstMod.nodeOffset
        ioFromAbsolute == IoAbsolute(srcPort, srcMod)
        ioToAbsolute   == IoAbsolute(dstPort, dstMod)
    IN  IF srcMod = NoModule \/ dstMod = NoModule \/ srcPort = NoPort \/ dstPort = NoPort
        THEN [st EXCEPT !.thrown = "TypeError"]
        ELSE IF srcPort.type = "audio"
        THEN ApplyAudioWire(st, wire, srcPort, dstPort, fromAbsolute, toAbsolute,
                            ioFromAbsolute, ioToAbsolute)
        ELSE ApplyControlWire(st, wire, srcPort, dstPort, fromAbsolute, toAbsolute,
                              ioFromAbsolute, ioToAbsolute)

\* the loop over the wires, in list order, stopping at a raised error
RECURSIVE ApplyWires(_, _, _, _)
ApplyWires(st, mods, ws, k) ==
    IF k > Len(ws) \/ st.thrown # "none" THEN st
    ELSE ApplyWires(ApplyWire(st, mods, ws[k]), mods, ws, k + 1)

\* local state of one applyWiring call: the two lists, audioBuses,
\* disconnectedOutputs, and the error raised so far
CallState(nodes, conns, err) ==
    [nodes |-> nodes, conns |-> conns, buses |-> {}, disc |-> {}, thrown |-> err]

\* mutant: each wire is validated just before it is applied, not up front
RECURSIVE ValidateThenApplyEach(_, _, _, _)
ValidateThenApplyEach(st, mods, ws, k) ==
    IF k > Len(ws) \/ st.thrown # "none" THEN st
    ELSE LET err == validateWiring(mods, SubSeq(ws, 1, k))
         IN  IF err # "none" THEN [st EXCEPT !.thrown = err]
             ELSE ValidateThenApplyEach(ApplyWire(st, mods, ws[k]), mods, ws, k + 1)

applyWiringInterleaved(nodes, conns, mods, ws) ==
    IF Len(ws) = 0 THEN CallState(nodes, conns, "none")
    ELSE ValidateThenApplyEach(CallState(nodes, conns, "none"), mods, ws, 1)

\* applyWiring(allNodes, allConnections, modules, wiring)
applyWiring(nodes, conns, mods, ws) ==
    IF Len(ws) = 0 THEN CallState(nodes, conns, "none")
    ELSE LET err == validateWiring(mods, ws)
         IN  IF err # "none" THEN CallState(nodes, conns, err)
             ELSE ApplyWires(CallState(nodes, conns, "none"), mods, ws, 1)

-----------------------------------------------------------------------------
(* Module fragments handed to the rack builder (RackableSpec values).      *)
(* Node positions are left to auto-layout; indices are local and 0-based.  *)

SpecNode(nm, as) == Node("obj", nm, as, Undefined, Undefined)

\* a sound source: oscillator -> gain -> hardware output
SrcTemplate ==
    [name  |-> <<"src">>,
     nodes |-> << SpecNode(<<"osc~">>, << <<"440">> >>), SpecNode(<<"*~">>, <<>>),
                  SpecNode(<<"dac~">>, <<>>) >>,
     connections |-> << Conn(0, 0, 1, 0), Conn(1, 0, 2, 0), Conn(1, 0, 2, 1) >>,
     ports |-> << Port(<<"out">>, "audio", "output", 1, 0, 2),
                  Port(<<"ctl">>, "control", "output", 0, 0, Undefined),
                  Port(<<"cin">>, "control", "input", 0, 0, Undefined) >>]

\* an effect: hardware input feeds a wet and a dry path into hardware output
FxTemplate ==
    [name  |-> <<"fx">>,
     nodes |-> << SpecNode(<<"adc~">>, <<>>), SpecNode(<<"rev~">>, <<>>),
                  SpecNode(<<"dac~">>, <<>>) >>,
     connections |-> << Conn(0, 0, 1, 0), Conn(0, 0, 2, 1), Conn(1, 0, 2, 0) >>,
     ports |-> << Port(<<"in">>, "audio", "input", 1, 0, 0),
                  Port(<<"out">>, "audio", "output", 1, 0, 2) >>]

\* a mixer: two audio inlets and a tap output without terminal nodes, one
\* control inlet
MixTemplate ==
    [name  |-> <<"mix">>,
     nodes |-> << SpecNode(<<"+~">>, <<>>), SpecNode(<<"dac~">>, <<>>) >>,
     connections |-> << Conn(0, 0, 1, 0) >>,
     ports |-> << Port(<<"in">>, "audio", "input", 0, 0, Undefined),
                  Port(<<"in2">>, "audio", "input", 0, 1, Undefined),
                  Port(<<"cin">>, "control", "input", 0, 1, Undefined),
                  Port(<<"out">>, "audio", "output", 0, 0, Undefined) >>]

\* an amplified source: the output port is the oscillator, its terminal node
\* is the gain stage between the oscillator and the hardware output
AmpTemplate ==
    [name  |-> <<"amp">>,
     nodes |-> << SpecNode(<<"osc~">>, << <<"220">> >>), SpecNode(<<"*~">>, << <<"0.5">> >>),
                  SpecNode(<<"dac~">>, <<>>) >>,
     connections |-> << Conn(0, 0, 1, 0), Conn(1, 0, 2, 0), Conn(1, 0, 2, 1) >>,
     ports |-> << Port(<<"out">>, "audio", "output", 0, 0, 1) >>]

\* a monitor: a test tone on the hardware output.  The input port feeds the
\* hardware output directly, and the hardware output is also the terminal
\* node of the output port
MonTemplate ==
    [name  |-> <<"mon">>,
     nodes |-> << SpecNode(<<"osc~">>, << <<"1000">> >>), SpecNode(<<"dac~">>, <<>>) >>,
     connections |-> << Conn(0, 0, 1, 0) >>,
     ports |-> << Port(<<"in">>, "audio", "input", 1, 0, Undefined),
                  Port(<<"out">>, "audio", "output", 0, 0, 1) >>]

\* a tone generator whose one audio output port has the given name
TapTemplate(out) ==
    [name  |-> <<"tap">>,
     nodes |-> << SpecNode(<<"osc~">>, << <<"110">> >>), SpecNode(<<"dac~">>, <<>>) >>,
     connections |-> << Conn(0, 0, 1, 0) >>,
     ports |-> << Port(out, "audio", "output", 0, 0, 1) >>]

\* a sequencer: a self-clocking metro drives a counter; notes leave by noteout
SeqTemplate ==
    [name  |-> <<"seq">>,
     nodes |-> << SpecNode(<<"metro">>, << <<"250">> >>), SpecNode(<<"float">>, <<>>),
                  SpecNode(<<"noteout">>, <<>>) >>,
     connections |-> << Conn(0, 0, 1, 0), Conn(0, 0, 2, 1), Conn(1, 0, 2, 0) >>,
     ports |-> << Port(<<"cin">>, "control", "input", 1, 0, 0),
                  Port(<<"ctl">>, "control", "output", 1, 0, 2),
                  Port(<<"in">>, "control", "input", 1, 1, Undefined) >>]

\* String.prototype.toUpperCase on the atoms used in file names
UpperAtom(a) ==
    CASE a = "src" -> "SRC" [] a = "fx" -> "FX" [] a = "mix" -> "MIX"
      [] a = "seq" -> "SEQ" [] a = "amp" -> "AMP"
      [] a = "mon" -> "MON" [] a = "tap" -> "TAP" [] OTHER -> a

toUpperCase(str) == [i \in 1..Len(str) |-> UpperAtom(str[i])]

-----------------------------------------------------------------------------
(* Rack layout (buildCombinedPatch) *)

COLUMN_WIDTH == 400

\* the lists before the module loop: the rack title is node 0, nodeOffset = 1
EmptyRack ==
    [allNodes |-> << Node("text", NoString, << <<"===", " ", "RACK", " ", "===">> >>, 50, 10) >>,
     allConnections |-> <<>>,
     wiringModules  |-> <<>>,
     nodeOffset     |-> 1]

\* mutant: the section label is pushed but not counted into the offset that
\* the module's descriptor and connections get
AddModuleLabelUncounted(rack, i, m) ==
    LET label   == Node("text", NoString,
                        << <<"===", " ">> \o toUpperCase(m.name) \o <<" ", "===">> >>,
                        50 + i * COLUMN_WIDTH, 30)
        offset  == rack.nodeOffset
        shifted == [c \in 1..Len(m.spec.connections) |->
                      Conn(m.spec.connections[c].from + offset, m.spec.connections[c].outlet,
                           m.spec.connections[c].to + offset, m.spec.connections[c].inlet)]
    IN  [allNodes       |-> (rack.allNodes \o <<label>>) \o m.spec.nodes,
         allConnections |-> rack.allConnections \o shifted,
         wiringModules  |-> Append(rack.wiringModules,
                                   [id |-> m.id, ports |-> m.ports, nodeOffset |-> offset]),
         nodeOffset     |-> offset + 1 + Len(m.spec.nodes)]

\* one iteration of the module loop, for the i-th module (i is 0-based)
AddModule(rack, i, m) ==
    LET xOffset    == i * COLUMN_WIDTH
        label      == Node("text", NoString,
                           << <<"===", " ">> \o toUpperCase(m.name) \o <<" ", "===">> >>,
                           50 + xOffset, 30)
        offset     == rack.nodeOffset + 1
        placed     == [j \in 1..Len(m.spec.nodes) |->
                         LET node == m.spec.nodes[j]
                         IN  [node EXCEPT
                                !.x = (IF node.x = Undefined THEN 50 ELSE node.x) + xOffset,
                                !.y = IF node.y = Undefined THEN 50 + (j - 1) * 40 ELSE node.y]]
        shifted    == [c \in 1..Len(m.spec.connections) |->
                         LET conn == m.spec.connections[c]
                         IN  Conn(conn.from + offset, conn.outlet,
                                  conn.to + offset, conn.inlet)]
    IN  [allNodes       |-> (rack.allNodes \o <<label>>) \o placed,
         allConnections |-> rack.allConnections \o shifted,
         wiringModules  |-> Append(rack.wiringModules,
                                   [id |-> m.id, ports |-> m.ports,
                                    nodeOffset |-> offset]),
         nodeOffset     |-> offset + Len(m.spec.nodes)]

\* an entry of the `modules` parameter of buildCombinedPatch
RackModule(t, id) ==
    [name |-> t.name, id |-> id, ports |-> t.ports,
     spec |-> [nodes |-> t.nodes, connections |-> t.connections]]

-----------------------------------------------------------------------------
(* The racks laid out and the wires a caller may ask for on each.          *)
(* `mods` is the module list given to buildCombinedPatch; froms, outputs,  *)
(* tos and inputs are the names the caller's wires are drawn from.         *)

A == <<"a">>
B == <<"b">>
C == <<"c">>
ZZ == <<"zz">>
\* names that hold the separator of bus names
AB == <<"a", "__", "b">>
BC == <<"b", "__", "c">>

Racks ==
    << \* a source, an effect and a mixer: audio chains and fan-out
       [mods    |-> << RackModule(SrcTemplate, A), RackModule(FxTemplate, B),
                       RackModule(MixTemplate, C) >>,
        froms   |-> {A, B, ZZ},  outputs |-> {<<"out">>, <<"ctl">>},
        tos     |-> {B, C},      inputs  |-> {<<"in">>, <<"in2">>, <<"cin">>}],
       \* two sequencers and a source: control buses
       [mods    |-> << RackModule(SeqTemplate, A), RackModule(SeqTemplate, B),
                       RackModule(SrcTemplate, C) >>,
        froms   |-> {A, C},      outputs |-> {<<"ctl">>, <<"cin">>},
        tos     |-> {A, B, C, ZZ}, inputs |-> {<<"cin">>, <<"in">>}],
       \* two modules sharing one id
       [mods    |-> << RackModule(SrcTemplate, A), RackModule(MixTemplate, B),
                       RackModule(MixTemplate, B) >>,
        froms   |-> {A, B},      outputs |-> {<<"out">>},
        tos     |-> {A, B},      inputs  |-> {<<"in">>, <<"in2">>}],
       \* a rack without modules
       [mods    |-> <<>>,
        froms   |-> {A},         outputs |-> {<<"out">>},
        tos     |-> {B},         inputs  |-> {<<"in">>}],
       \* two mixers chained by ports that declare no terminal node, and a
       \* source whose terminal node feeds on
       [mods    |-> << RackModule(MixTemplate, A), RackModule(MixTemplate, B),
                       RackModule(AmpTemplate, C) >>,
        froms   |-> {A, C},      outputs |-> {<<"out">>},
        tos     |-> {A, B},      inputs  |-> {<<"in">>, <<"in2">>}],
       \* a source into a monitor into a mixer
       [mods    |-> << RackModule(AmpTemplate, A), RackModule(MonTemplate, B),
                       RackModule(MixTemplate, C) >>,
        froms   |-> {A, B},      outputs |-> {<<"out">>},
        tos     |-> {B, C},      inputs  |-> {<<"in">>}],
       \* two tone generators into a mixer; the ids and the port names hold
       \* the separator "__"
       [mods    |-> << RackModule(TapTemplate(BC), A), RackModule(TapTemplate(C), AB),
                       RackModule(MixTemplate, C) >>,
        froms   |-> {A, AB},     outputs |-> {C, BC},
        tos     |-> {C},         inputs  |-> {<<"in">>, <<"in2">>}] >>

RackIds == 1..Len(Racks)

WiresOf(r) ==
    {Wire(f, o, t, i) : f \in Racks[r].froms, o \in Racks[r].outputs,
                        t \in Racks[r].tos, i \in Racks[r].inputs}

WireLists(r) == SeqsUpTo(WiresOf(r), MaxWires)

-----------------------------------------------------------------------------
(* The rack build as a state machine *)

Init ==
    /\ rackId \in RackIds
    /\ allNodes = EmptyRack.allNodes
    /\ allConnections = EmptyRack.allConnections
    /\ modules = EmptyRack.wiringModules
    /\ nodeOffset = EmptyRack.nodeOffset
    /\ wiring = <<>>
    /\ preNodes = <<>>
    /\ preConns = <<>>
    /\ thrown = "none"
    /\ phase = "layout"
    /\ TextIdle

\* one iteration of the module loop of buildCombinedPatch
LayoutModule ==
    /\ phase = "layout"
    /\ Len(modules) < Len(Racks[rackId].mods)
    /\ LET i    == Len(modules)
           rack == AddModule([allNodes |-> allNodes, allConnections |-> allConnections,
                              wiringModules |-> modules, nodeOffset |-> nodeOffset],
                             i, Racks[rackId].mods[i + 1])
       IN  /\ allNodes' = rack.allNodes
           /\ allConnections' = rack.allConnections
           /\ modules' = rack.wiringModules
           /\ nodeOffset' = rack.nodeOffset
    /\ UNCHANGED <<rackId, wiring, preNodes, preConns, thrown, phase, tvars>>

\* the applyWiring call made once the rack is laid out, on a wire list ws
ApplyWiring ==
    /\ phase = "layout"
    /\ Len(modules) = Len(Racks[rackId].mods)
    /\ \E ws \in WireLists(rackId) :
         LET r == applyWiring(allNodes, allConnections, modules, ws)
         IN  /\ allNodes' = r.nodes
             /\ allConnections' = r.conns
             /\ thrown' = r.thrown
             /\ wiring' = ws
    /\ preNodes' = allNodes
    /\ preConns' = allConnections
    /\ phase' = "called"
    /\ UNCHANGED <<rackId, modules, nodeOffset, tvars>>

Next ==
    \/ LayoutModule
    \/ ApplyWiring

Spec == Init /\ [][Next]_vars

-----------------------------------------------------------------------------
(* Vocabulary of the linker claims, stated on the call's arguments alone   *)

Called == phase = "called"
Succeeded == Called /\ thrown = "none"
Rejected == Called /\ thrown # "none"
Unmutated == allNodes = preNodes /\ allConnections = preConns
\* the call's lists and maps once the first j wires are applied
StateAfter(j) ==
    ApplyWires(CallState(preNodes, preConns, "none"), modules, SubSeq(wiring, 1, j), 1)

UniqueIds(mods) == \A i, j \in 1..Len(mods) : mods[i].id = mods[j].id => i = j
HasMod(mods, id) == \E m \in Range(mods) : m.id = id
ModById(mods, id) == CHOOSE m \in Range(mods) : m.id = id
PortsOf(mods, id, name, dir) ==
    IF HasMod(mods, id)
    THEN {p \in Range(ModById(mods, id).ports) : p.name = name /\ p.direction = dir}
    ELSE {}
OutPortOf(mods, w) == CHOOSE p \in PortsOf(mods, w.from, w.output, "output") : TRUE
InPortOf(mods, w) == CHOOSE p \in PortsOf(mods, w.to, w.input, "input") : TRUE

WireResolves(mods, w) ==
    /\ HasMod(mods, w.from) /\ HasMod(mods, w.to)
    /\ PortsOf(mods, w.from, w.output, "output") # {}
    /\ PortsOf(mods, w.to, w.input, "input") # {}
WireCrossClass(mods, w) ==
    WireResolves(mods, w) /\ OutPortOf(mods, w).type # InPortOf(mods, w).type
WireSelf(w) == w.from = w.to
ClaimedEarlier(ws, k) ==
    \E j \in 1..(k-1) : ws[j].to = ws[k].to /\ ws[j].input = ws[k].input
WireOk(mods, ws, k) ==
    /\ WireResolves(mods, ws[k]) /\ ~WireSelf(ws[k])
    /\ ~WireCrossClass(mods, ws[k]) /\ ~ClaimedEarlier(ws, k)
BatchValid(mods, ws) == UniqueIds(mods) /\ \A k \in 1..Len(ws) : WireOk(mods, ws, k)
\* wire k is the first thing validation can object to
FirstViolation(mods, ws, k) ==
    /\ UniqueIds(mods) /\ k \in 1..Len(ws)
    /\ \A j \in 1..(k-1) : WireOk(mods, ws, j)
    /\ ~WireOk(mods, ws, k)

IsRelay(n) == n.name \in {<<"throw~">>, <<"catch~">>, <<"send">>, <<"receive">>}
\* 0-based indices of the nodes of `nodes` with the given name and first argument
NodesNamed(nodes, nm, arg) ==
    {i \in 0..(Len(nodes)-1) : nodes[i+1].name = nm /\ nodes[i+1].args = <<arg>>}

-----------------------------------------------------------------------------
(* C1: applyWiring is all-or-nothing.  Whenever a non-empty wire list      *)
(* holds a wire that fails validation (at any position), or the module     *)
(* ids are not unique, the call throws and both lists are element for      *)
(* element what they were before the call.                                 *)
C1_AllOrNothing ==
    (Called /\ Len(wiring) > 0 /\ ~BatchValid(modules, wiring))
        => (thrown # "none" /\ Unmutated)

\* a valid wire precedes the invalid one, on lists that hold connections
C1_Witness ==
    /\ Rejected /\ Len(wiring) = 2 /\ UniqueIds(modules)
    /\ WireOk(modules, wiring, 1) /\ ~WireOk(modules, wiring, 2)
    /\ Len(preConns) > 0 /\ Unmutated

(* C2: after a successful call the pre-call node list is a prefix of the   *)
(* node list: the length never decreases, every old index holds the same   *)
(* node, and everything beyond the old length is a relay node created by   *)
(* the call.                                                               *)
C2_PrefixStable ==
    Succeeded =>
        /\ Len(allNodes) >= Len(preNodes)
        /\ \A i \in 1..Len(preNodes) : allNodes[i] = preNodes[i]
        /\ \A i \in (Len(preNodes)+1)..Len(allNodes) : IsRelay(allNodes[i])

C2_Witness == Succeeded /\ Len(allNodes) > Len(preNodes) /\ Len(wiring) = 2

\* the bus name the claims give a wire: "<source module id>__<output port name>"
ClaimedBus(w) == w.from \o <<"__">> \o w.output
AudioWire(mods, w) == WireResolves(mods, w) /\ OutPortOf(mods, w).type = "audio"
ToAbs(mods, w) == InPortOf(mods, w).nodeIndex + ModById(mods, w.to).nodeOffset
IoToAbs(mods, w) == InPortOf(mods, w).ioNodeIndex + ModById(mods, w.to).nodeOffset
\* applying audio wire w to the list `before` gives a list `after` in which
\* its destination is fed from the node at 0-based index src: directly when
\* the input port has no terminal node, else through a connection that used
\* to start at the terminal node
FedFrom(mods, w, src, before, after) ==
    IF InPortOf(mods, w).ioNodeIndex = Undefined
    THEN Conn(src, 0, ToAbs(mods, w), InPortOf(mods, w).port) \in Range(after)
    ELSE \E c \in Range(before) :
            /\ c.from = IoToAbs(mods, w)
            /\ [c EXCEPT !.from = src] \in Range(after)

C6_CrossClassRejected ==
    Called =>
        \A k \in 1..Len(wiring) :
            WireCrossClass(modules, wiring[k]) =>
                /\ thrown # "none" /\ Unmutated
                /\ (FirstViolation(modules, wiring, k) /\ ~WireSelf(wiring[k]))
                       => thrown = "type mismatch"

\* an audio output wired to a control input, after a valid wire
C6_Witness ==
    /\ Rejected /\ Len(wiring) = 2 /\ thrown = "type mismatch"
    /\ WireOk(modules, wiring, 1)
    /\ WireCrossClass(modules, wiring[2])
    /\ OutPortOf(modules, wiring[2]).type = "audio"
    /\ InPortOf(modules, wiring[2]).type = "control"

(* C7: a batch in which two wires name the same destination module and     *)
(* input port is rejected and nothing is mutated; the error is the         *)
(* duplicate-input error whenever the second claim on the port is the      *)
(* first violation of the batch.                                           *)
C7_DuplicateInputRejected ==
    Called =>
        \A k \in 1..Len(wiring) :
            ClaimedEarlier(wiring, k) =>
                /\ thrown # "none" /\ Unmutated
                /\ ( /\ FirstViolation(modules, wiring, k)
                     /\ WireResolves(modules, wiring[k]) /\ ~WireSelf(wiring[k])
                     /\ ~WireCrossClass(modules, wiring[k]) )
                       => thrown = "duplicate input"

\* two wires from different sources into one input port
C7_Witness ==
    /\ Rejected /\ Len(wiring) = 2 /\ thrown = "duplicate input"
    /\ wiring[1].from # wiring[2].from
    /\ wiring[1].to = wiring[2].to /\ wiring[1].input = wiring[2].input

(* C8, as claimed: whenever two descriptors share an id the call is        *)
(* rejected with the duplicate-module-id error, for every wire list.       *)
C8_AsClaimed ==
    (Called /\ ~UniqueIds(modules))
        => (thrown = "Duplicate module ID" /\ Unmutated)

(* C8, amended: whenever two descriptors share an id and the wire list is  *)
(* not empty, the call is rejected with the duplicate-module-id error and  *)
(* neither list is mutated; with an empty wire list the call returns       *)
(* without an error and without validating anything.                       *)
C8_DuplicateIdRejected ==
    /\ (Called /\ ~UniqueIds(modules) /\ Len(wiring) > 0)
          => (thrown = "Duplicate module ID" /\ Unmutated)
    /\ (Called /\ Len(wiring) = 0) => (thrown = "none" /\ Unmutated)

C8_Witness ==
    /\ Rejected /\ ~UniqueIds(modules) /\ Len(wiring) = 2
    /\ thrown = "Duplicate module ID"

(* C9: a wire is accepted only if its references resolve (both module ids  *)
(* name a descriptor, the output name is an output port of the source, the *)
(* input name an input port of the destination; a port of the right name   *)
(* and the wrong direction does not count).  Otherwise the call throws,    *)
(* no node is appended and the node and connection counts are unchanged.   *)
C9_UnresolvedRejected ==
    Called =>
        \A k \in 1..Len(wiring) :
            ~WireResolves(modules, wiring[k]) =>
                /\ thrown # "none"
                /\ Len(allNodes) = Len(preNodes)
                /\ Len(allConnections) = Len(preConns)
                /\ Unmutated

\* the output name is a port of the source module, but an input port
C9_Witness ==
    /\ Rejected /\ Len(wiring) = 2 /\ UniqueIds(modules)
    /\ WireOk(modules, wiring, 1)
    /\ HasMod(modules, wiring[2].from) /\ HasMod(modules, wiring[2].to)
    /\ PortsOf(modules, wiring[2].from, wiring[2].output, "output") = {}
    /\ PortsOf(modules, wiring[2].from, wiring[2].output, "input") # {}
    /\ thrown = "output port not found"

(* C10: a wire from a module to itself is rejected and nothing is mutated, *)
(* even when both named ports exist on the module with the same class; the *)
(* error is the self-wiring error whenever that wire is the first          *)
(* violation of the batch and the module exists.                           *)
C10_SelfWireRejected ==
    Called =>
        \A k \in 1..Len(wiring) :
            WireSelf(wiring[k]) =>
                /\ thrown # "none" /\ Unmutated
                /\ (FirstViolation(modules, wiring, k) /\ HasMod(modules, wiring[k].from))
                       => thrown = "cannot be wired to itself"

\* the self-wire names two existing ports of one class, after a valid wire
C10_Witness ==
    /\ Rejected /\ Len(wiring) = 2 /\ UniqueIds(modules)
    /\ WireOk(modules, wiring, 1)
    /\ WireSelf(wiring[2]) /\ WireResolves(modules, wiring[2])
    /\ ~WireCrossClass(modules, wiring[2])
    /\ thrown = "cannot be wired to itself"

-----------------------------------------------------------------------------
(* Patch text.  A text is a sequence of atoms: " " and "\n" (whitespace),  *)
(* ";" and "\\" (one character each) and words.  A word holds no           *)
(* whitespace, semicolon or backslash, and two words are never adjacent,   *)
(* so the tokens of a text are its maximal runs of non-whitespace atoms.   *)
(* A word is either the decimal numeral of a number in 0..MaxNum or not    *)
(* numeric at all; tabs and carriage returns do not occur.                 *)

\* largest number that is written in a patch text
MaxNum == 800

\* the value of Number(t) and parseInt(t) when t is not numeric
NaN == -1

\* decimal numerals of the numbers that occur
Numerals == {ToString(n) : n \in 0..MaxNum}

\* the number a numeral atom denotes
NumberOf == [a \in Numerals |-> CHOOSE n \in 0..MaxNum : ToString(n) = a]

\* String(n), as in a template literal `${n}`
Str(n) == IF n = NaN THEN "NaN" ELSE ToString(n)

\* Number(token): a token is numeric when it is one numeral atom
Number(token) ==
    IF Len(token) = 1 /\ token[1] \in Numerals THEN NumberOf[token[1]] ELSE NaN

\* parseInt(token, 10): the leading digits count, what follows is ignored
parseInt(token) ==
    IF Len(token) >= 1 /\ token[1] \in Numerals THEN NumberOf[token[1]] ELSE NaN

\* `n || d`: NaN and 0 are falsy
OrDefault(n, d) == IF n = NaN \/ n = 0 THEN d ELSE n

\* parseNumber(token) ?? 0
parseNumber(token) == IF Number(token) = NaN THEN 0 ELSE Number(token)

\* coerceToken: a numeric token becomes a number, written by its numeral
coerceToken(token) == IF Number(token) = NaN THEN token ELSE <<Str(Number(token))>>

\* a string value that is neither undefined nor empty
Truthy(str) == str # NoString /\ str # <<>>

IsSpace(a) == a = " " \/ a = "\n"

\* String.prototype.trim
trim(s) ==
    LET idx == {i \in 1..Len(s) : ~IsSpace(s[i])}
    IN  IF idx = {} THEN <<>>
        ELSE SubSeq(s, CHOOSE i \in idx : \A j \in idx : i <= j,
                       CHOOSE i \in idx : \A j \in idx : j <= i)

\* array[k] with a 0-based k: undefined past the end
At(tokens, k) == IF k + 1 <= Len(tokens) THEN tokens[k + 1] ELSE NoString

\* tokens.slice(k)
Slice(tokens, k) == SubSeq(tokens, k + 1, Len(tokens))

\* strs.join(sep)
RECURSIVE Join(_, _)
Join(strs, sep) ==
    IF Len(strs) = 0 THEN <<>>
    ELSE IF Len(strs) = 1 THEN strs[1]
    ELSE strs[1] \o <<sep>> \o Join(Tail(strs), sep)

\* the concatenation of a sequence of sequences
RECURSIVE Flatten(_)
Flatten(seqs) == IF Len(seqs) = 0 THEN <<>> ELSE seqs[1] \o Flatten(Tail(seqs))

\* a semicolon the character loop of splitStatements ends a statement at:
\* one that does not follow a backslash (a backslash and the semicolon
\* behind it are copied into the statement together)
IsTerminator(src, j) == src[j] = ";" /\ (j = 1 \/ src[j - 1] # "\\")

\* the loop of splitStatements, from the first character i of a statement
\* on: the characters up to the next terminator, trimmed, are a statement
\* unless nothing is left of them
RECURSIVE SplitFrom(_, _, _)
SplitFrom(src, i, results) ==
    LET terms   == {j \in i..Len(src) : IsTerminator(src, j)}
        end     == IF terms = {} THEN Len(src) + 1
                   ELSE CHOOSE j \in terms : \A k \in terms : j <= k
        current == trim(SubSeq(src, i, end - 1))
        pushed  == IF current # <<>> THEN Append(results, current) ELSE results
    IN  IF i > Len(src) THEN results
        ELSE IF terms = {} THEN pushed
        ELSE SplitFrom(src, end + 1, pushed)

splitStatements(src) == SplitFrom(src, 1, <<>>)

\* stmt.replace(/[\r\n\t]+/g, " "): each run of newlines becomes one space
normalizeWhitespace(stmt) ==
    LET marked == [i \in 1..Len(stmt) |->
                     IF stmt[i] # "\n" THEN stmt[i]
                     ELSE IF i > 1 /\ stmt[i - 1] = "\n" THEN "" ELSE " "]
        Keep(a) == a # ""
    IN  SelectSeq(marked, Keep)

\* the whitespace split of tokenize, from atom i on
RECURSIVE TokensFrom(_, _, _, _)
TokensFrom(s, i, current, tokens) ==
    LET pushed == IF current # <<>> THEN Append(tokens, current) ELSE tokens
    IN  IF i > Len(s) THEN pushed
        ELSE IF IsSpace(s[i]) THEN TokensFrom(s, i + 1, <<>>, pushed)
        ELSE TokensFrom(s, i + 1, Append(current, s[i]), tokens)

\* s.trim().split(/\s+/).filter(Boolean)
tokenize(s) == TokensFrom(s, 1, <<>>, <<>>)

\* s.trim().split(/\s+/): the empty string splits into one empty token
splitWhitespace(s) == IF trim(s) = <<>> THEN << <<>> >> ELSE tokenize(s)

-----------------------------------------------------------------------------
(* Parser (parsePatch).  Canvases live in a heap indexed by canvas id, so  *)
(* that the canvas stack and the subpatch lists refer to shared objects.   *)

\* new ParseContext(); `thrown` records the error that ended the parse
NewContext ==
    [root |-> Null, canvasStack |-> <<>>, nextCanvasId |-> 0, canvases |-> <<>>,
     thrown |-> "none"]

\* ctx.current: the id of the canvas on top of the stack, or null
Current(ctx) ==
    IF Len(ctx.canvasStack) > 0 THEN ctx.canvasStack[Len(ctx.canvasStack)] ELSE Null

\* s.startsWith(prefix)
StartsWith(s, prefix) == Len(s) >= Len(prefix) /\ SubSeq(s, 1, Len(prefix)) = prefix

PdNode(id, type, x, y, name, args, raw) ==
    [id |-> id, type |-> type, x |-> x, y |-> y, name |-> name, args |-> args, raw |-> raw]

PdConnection(fromNode, fromOutlet, toNode, toInlet) ==
    [fromNode |-> fromNode, fromOutlet |-> fromOutlet, toNode |-> toNode,
     toInlet |-> toInlet]

\* mutant: the node is put in front of the canvas's nodes (unshift)
UnshiftCanvasNode(ctx, canvasId, node) ==
    [ctx EXCEPT !.canvases[canvasId + 1].nodes = <<node>> \o @]

\* canvas.nodes.push(node) on the canvas with the given id
PushCanvasNode(ctx, canvasId, node) ==
    [ctx EXCEPT !.canvases[canvasId + 1].nodes = Append(@, node)]

\* mutant: the canvas is pushed without being made a child of the current one
pushCanvasUnlinked(ctx, canvas) ==
    [ctx EXCEPT !.canvases = Append(@, canvas),
                !.root = IF Len(ctx.canvasStack) > 0 THEN @ ELSE canvas.id,
                !.canvasStack = Append(@, canvas.id)]

\* ctx.pushCanvas(canvas): a child of the current canvas, or else the root
pushCanvas(ctx, canvas) ==
    LET heap == Append(ctx.canvases, canvas)
    IN  IF Len(ctx.canvasStack) > 0
        THEN [ctx EXCEPT
                !.canvases = [heap EXCEPT ![Current(ctx) + 1].subpatches =
                                             Append(@, canvas.id)],
                !.canvasStack = Append(@, canvas.id)]
        ELSE [ctx EXCEPT !.canvases = heap, !.root = canvas.id,
                         !.canvasStack = Append(@, canvas.id)]

\* #N canvas <x> <y> <width> <height> <fontSize | name> [<name>]
parseCanvasHeader(stmt, ctx) ==
    LET parts          == tokenize(stmt)
        fontSizeOrName == At(parts, 6)
        isSubpatch     == ctx.root # Null
        named          == /\ isSubpatch
                          /\ fontSizeOrName # NoString
                          /\ Number(fontSizeOrName) = NaN
        canvas ==
            [id         |-> ctx.nextCanvasId,
             x          |-> OrDefault(parseInt(At(parts, 2)), 0),
             y          |-> OrDefault(parseInt(At(parts, 3)), 0),
             width      |-> OrDefault(parseInt(At(parts, 4)), 800),
             height     |-> OrDefault(parseInt(At(parts, 5)), 600),
             fontSize   |-> IF named THEN 12
                            ELSE OrDefault(parseInt(fontSizeOrName), 12),
             name       |-> IF ~isSubpatch THEN NoString
                            ELSE IF named THEN fontSizeOrName
                            ELSE At(parts, 7),
             isSubpatch |-> isSubpatch,
             nodes |-> <<>>, connections |-> <<>>, subpatches |-> <<>>]
    IN  pushCanvas([ctx EXCEPT !.nextCanvasId = @ + 1], canvas)

\* parseNode: an indexable element becomes the next node of the canvas
parseNode(type, rest, raw, ctx, canvasId) ==
    LET tokens == tokenize(rest)
        named  == \/ type = <<"obj">> /\ Len(tokens) > 2
                  \/ type = <<"array">>
        name   == IF named /\ Len(tokens) > 2 THEN tokens[3] ELSE NoString
        args   == IF named THEN Slice(tokens, 3) ELSE Slice(tokens, 2)
        node   == PdNode(Len(ctx.canvases[canvasId + 1].nodes), type,
                         parseNumber(At(tokens, 0)), parseNumber(At(tokens, 1)),
                         name, [i \in 1..Len(args) |-> coerceToken(args[i])], raw)
    IN  PushCanvasNode(ctx, canvasId, node)

\* mutant: a connection is kept only if the canvas has both nodes already
parseConnectionChecked(rest, ctx, canvasId) ==
    LET tokens == splitWhitespace(rest)
        count  == Len(ctx.canvases[canvasId + 1].nodes)
    IN  IF Len(tokens) < 4 THEN ctx
        ELSE IF parseInt(tokens[1]) \notin 0..(count - 1) \/ parseInt(tokens[3]) \notin 0..(count - 1)
        THEN ctx
        ELSE [ctx EXCEPT !.canvases[canvasId + 1].connections =
                Append(@, PdConnection(parseInt(tokens[1]), parseInt(tokens[2]),
                                       parseInt(tokens[3]), parseInt(tokens[4])))]

\* parseConnection: four integers, fewer than four tokens are dropped
parseConnection(rest, ctx, canvasId) ==
    LET tokens == splitWhitespace(rest)
    IN  IF Len(tokens) < 4 THEN ctx
        ELSE [ctx EXCEPT !.canvases[canvasId + 1].connections =
                Append(@, PdConnection(parseInt(tokens[1]), parseInt(tokens[2]),
                                       parseInt(tokens[3]), parseInt(tokens[4])))]

\* tokens.indexOf("pd"), 0-based, -1 when absent
IndexOfPd(tokens) ==
    IF \E i \in 1..Len(tokens) : tokens[i] = <<"pd">>
    THEN (CHOOSE i \in 1..Len(tokens) :
             tokens[i] = <<"pd">> /\ \A j \in 1..(i - 1) : tokens[j] # <<"pd">>) - 1
    ELSE -1

\* parseRestore: pops the canvas stack, names the closed canvas if it has
\* no name yet, and appends the placeholder node to the parent
parseRestore(rest, raw, ctx) ==
    LET tokens  == tokenize(rest)
        popped  == Current(ctx)
        c1      == IF popped = Null THEN ctx
                   ELSE [ctx EXCEPT !.canvasStack =
                           SubSeq(@, 1, Len(ctx.canvasStack) - 1)]
        parent  == Current(c1)
        pdIdx   == IndexOfPd(tokens)
        subName == IF pdIdx >= 0 THEN Join(Slice(tokens, pdIdx + 1), " ")
                   ELSE NoString
        c2      == IF Truthy(subName) /\ ~Truthy(c1.canvases[popped + 1].name)
                   THEN [c1 EXCEPT !.canvases[popped + 1].name = subName]
                   ELSE c1
        node    == PdNode(Len(c2.canvases[parent + 1].nodes), <<"obj">>,
                          parseNumber(At(tokens, 0)), parseNumber(At(tokens, 1)),
                          <<"pd">>, IF Truthy(subName) THEN <<subName>> ELSE <<>>, raw)
    IN  IF parent # Null /\ popped # Null
        THEN PushCanvasNode(c2, parent, node)
        ELSE c1

\* parseElement: #X <type> <rest>
parseElement(stmt, ctx) ==
    LET afterHash == SubSeq(stmt, 3, Len(stmt))
        spaces    == {i \in 1..Len(afterHash) : afterHash[i] = " "}
        spaceIdx  == IF spaces = {} THEN 0
                     ELSE CHOOSE i \in spaces : \A j \in spaces : i <= j
        type      == IF spaceIdx = 0 THEN afterHash
                     ELSE SubSeq(afterHash, 1, spaceIdx - 1)
        rest      == IF spaceIdx = 0 THEN <<>>
                     ELSE SubSeq(afterHash, spaceIdx + 1, Len(afterHash))
        canvas    == Current(ctx)
    IN  IF canvas = Null
        THEN [ctx EXCEPT !.thrown = "Element found outside canvas"]
        ELSE IF type = <<"connect">> THEN parseConnection(rest, ctx, canvas)
        ELSE IF type = <<"restore">> THEN parseRestore(rest, stmt, ctx)
        ELSE IF type = <<"coords">> THEN ctx
        ELSE parseNode(type, rest, stmt, ctx, canvas)

\* parseArrayData: the statement is appended to the raw text of the last
\* array node of the current canvas
parseArrayData(stmt, ctx) ==
    LET canvas == Current(ctx)
        nodes  == ctx.canvases[canvas + 1].nodes
        arrays == {i \in 1..Len(nodes) : nodes[i].type = <<"array">>}
        last   == CHOOSE i \in arrays : \A j \in arrays : j <= i
    IN  IF canvas = Null \/ arrays = {} THEN ctx
        ELSE [ctx EXCEPT !.canvases[canvas + 1].nodes[last].raw =
                           @ \o <<";", "\n">> \o stmt]

\* parseStatement: dispatch on the statement's first characters
parseStatement(stmt, ctx) ==
    LET normalized == normalizeWhitespace(stmt)
    IN  IF StartsWith(normalized, <<"#N", " ", "canvas">>)
        THEN parseCanvasHeader(normalized, ctx)
        ELSE IF StartsWith(normalized, <<"#X">>) THEN parseElement(normalized, ctx)
        ELSE IF StartsWith(normalized, <<"#A">>) THEN parseArrayData(normalized, ctx)
        ELSE ctx

\* the statement loop of parsePatch; a throw ends it
RECURSIVE ParseFrom(_, _, _)
ParseFrom(statements, k, ctx) ==
    IF k > Len(statements) \/ ctx.thrown # "none" THEN ctx
    ELSE ParseFrom(statements, k + 1, parseStatement(statements[k], ctx))

\* mutant: an error thrown by a statement is swallowed and the canvases
\* built so far are returned
parsePatchPartial(src) ==
    LET ctx == ParseFrom(splitStatements(src), 1, NewContext)
    IN  IF ctx.root = Null
        THEN [status |-> "no root canvas", root |-> Null, canvases |-> <<>>]
        ELSE [status |-> "ok", root |-> ctx.root, canvases |-> ctx.canvases]

\* parsePatch: the patch, or the error thrown
parsePatch(src) ==
    LET ctx == ParseFrom(splitStatements(src), 1, NewContext)
    IN  IF ctx.thrown # "none"
        THEN [status |-> ctx.thrown, root |-> Null, canvases |-> <<>>]
        ELSE IF ctx.root = Null
        THEN [status |-> "no root canvas", root |-> Null, canvases |-> <<>>]
        ELSE [status |-> "ok", root |-> ctx.root, canvases |-> ctx.canvases]

-----------------------------------------------------------------------------
(* Serializer (serializePatch) and patch builder (buildPatch) *)

\* default layout settings for generated patches
LAYOUT ==
    [startX |-> 50, startY |-> 50, spacingX |-> 100, spacingY |-> 40,
     canvasWidth |-> 800, canvasHeight |-> 600, fontSize |-> 12]

\* the canvas-open line of a canvas
CanvasHeaderLine(canvas) ==
    <<"#N", " ", "canvas", " ", Str(canvas.x), " ", Str(canvas.y), " ",
      Str(canvas.width), " ", Str(canvas.height), " ">>
    \o (IF canvas.isSubpatch
        THEN (IF canvas.name = NoString THEN <<"subpatch">> ELSE canvas.name)
             \o <<" ", "0", ";">>
        ELSE <<Str(canvas.fontSize), ";">>)

\* mutant: no node is keyed to a subpatch, so no subpatch body is emitted
SubpatchMapGetNone(canvas, nodeId) == Null

\* the subpatchMap loop: the k-th node named "pd" is keyed, by its id, to
\* the k-th subpatch, while subpatches remain; a later set() of the same
\* key replaces the earlier one.  Null when the id has no entry.
SubpatchMapGet(canvas, nodeId) ==
    LET nodes   == canvas.nodes
        Rank(i) == Cardinality({j \in 1..i : nodes[j].name = <<"pd">>})
        keyed   == {i \in 1..Len(nodes) :
                      /\ nodes[i].name = <<"pd">>
                      /\ Rank(i) <= Len(canvas.subpatches)
                      /\ nodes[i].id = nodeId}
    IN  IF keyed = {} THEN Null
        ELSE canvas.subpatches[Rank(CHOOSE i \in keyed : \A j \in keyed : j <= i)]

\* `#X connect ${fromNode} ${fromOutlet} ${toNode} ${toInlet};`
ConnectLine(conn) ==
    <<"#X", " ", "connect", " ", Str(conn.fromNode), " ", Str(conn.fromOutlet), " ",
      Str(conn.toNode), " ", Str(conn.toInlet), ";">>

\* mutant: the body of a subpatch is pushed behind the line of its node
RECURSIVE serializeCanvasBodyLast(_, _)
serializeCanvasBodyLast(heap, id) ==
    LET canvas == heap[id + 1]
        NodeLines(node) ==
            LET subCanvas == SubpatchMapGet(canvas, node.id)
            IN  IF subCanvas # Null
                THEN << node.raw \o <<";">> >> \o serializeCanvasBodyLast(heap, subCanvas)
                ELSE << node.raw \o <<";">> >>
    IN  <<CanvasHeaderLine(canvas)>>
        \o Flatten([i \in 1..Len(canvas.nodes) |-> NodeLines(canvas.nodes[i])])
        \o [i \in 1..Len(canvas.connections) |-> ConnectLine(canvas.connections[i])]

\* serializeCanvas: the lines pushed for the canvas with the given id
RECURSIVE serializeCanvas(_, _)
serializeCanvas(heap, id) ==
    LET canvas == heap[id + 1]
        NodeLines(node) ==
            LET subCanvas == SubpatchMapGet(canvas, node.id)
            IN  IF subCanvas # Null
                THEN Append(serializeCanvas(heap, subCanvas), node.raw \o <<";">>)
                ELSE << node.raw \o <<";">> >>
    IN  <<CanvasHeaderLine(canvas)>>
        \o Flatten([i \in 1..Len(canvas.nodes) |-> NodeLines(canvas.nodes[i])])
        \o [i \in 1..Len(canvas.connections) |-> ConnectLine(canvas.connections[i])]

\* serializePatch: lines.join("\n") + "\n"
serializePatch(patch) == Join(serializeCanvas(patch.canvases, patch.root), "\n") \o <<"\n">>

\* the message-argument escaping of the builder: only an argument that is
\* exactly "," or ";" is escaped
EscapeMsgArg(a) ==
    IF a = <<",">> THEN <<"\\", ",">>
    ELSE IF a = <<";">> THEN <<"\\", ";">>
    ELSE a

\* the raw line the builder renders for a spec node placed at (x, y)
BuildRaw(nspec, x, y) ==
    LET type   == IF nspec.type = "undefined" THEN "obj" ELSE nspec.type
        args   == nspec.args
        argStr == IF Len(args) > 0 THEN <<" ">> \o Join(args, " ") ELSE <<>>
        at     == <<" ", Str(x), " ", Str(y)>>
    IN  IF type = "obj" /\ Truthy(nspec.name)
        THEN <<"#X", " ", "obj">> \o at \o <<" ">> \o nspec.name \o argStr
        ELSE IF type = "msg"
        THEN <<"#X", " ", "msg">> \o at \o <<" ">>
             \o Join([i \in 1..Len(args) |-> EscapeMsgArg(args[i])], " ")
        ELSE IF type = "floatatom" THEN <<"#X", " ", "floatatom">> \o at \o argStr
        ELSE IF type = "symbolatom" THEN <<"#X", " ", "symbolatom">> \o at \o argStr
        ELSE IF type = "text"
        THEN <<"#X", " ", "text">> \o at \o <<" ">> \o Join(args, " ")
        ELSE <<"#X", " ", "obj">> \o at
             \o (IF Truthy(nspec.name) THEN <<" ">> \o nspec.name ELSE <<>>) \o argStr

\* mutant: ids and connection ends are shifted once for the ids and once
\* more for the unshift
TitleShiftTwice(spec) == IF Truthy(spec.title) THEN 2 ELSE 0

\* `n.id += 1`, `c.fromNode += 1; c.toNode += 1` under `if (spec.title)`
TitleShift(spec) == IF Truthy(spec.title) THEN 1 ELSE 0

\* buildPatchFromSpec: the patch whose root canvas holds the spec's nodes
\* and connections, behind the title comment when a title is given
buildPatchFromSpec(spec) ==
    LET shift == TitleShift(spec)
        nodes ==
            [idx \in 1..Len(spec.nodes) |->
                LET nspec == spec.nodes[idx]
                    x == IF nspec.x = Undefined THEN LAYOUT.startX ELSE nspec.x
                    y == IF nspec.y = Undefined
                         THEN LAYOUT.startY + (idx - 1) * LAYOUT.spacingY
                         ELSE nspec.y
                IN  PdNode((idx - 1) + shift,
                           <<IF nspec.type = "undefined" THEN "obj" ELSE nspec.type>>,
                           x, y, nspec.name, nspec.args, BuildRaw(nspec, x, y))]
        connections ==
            [c \in 1..Len(spec.connections) |->
                LET cspec == spec.connections[c]
                IN  PdConnection(cspec.from + shift,
                                 IF cspec.outlet = Undefined THEN 0 ELSE cspec.outlet,
                                 cspec.to + shift,
                                 IF cspec.inlet = Undefined THEN 0 ELSE cspec.inlet)]
        commentNode ==
            PdNode(0, <<"text">>, LAYOUT.startX, 10, NoString, <<spec.title>>,
                   <<"#X", " ", "text", " ", Str(LAYOUT.startX), " ", "10", " ">>
                   \o spec.title)
        root ==
            [id |-> 0, x |-> 0, y |-> 50, width |-> LAYOUT.canvasWidth,
             height |-> LAYOUT.canvasHeight, fontSize |-> LAYOUT.fontSize,
             name |-> NoString, isSubpatch |-> FALSE,
             nodes |-> IF Truthy(spec.title) THEN <<commentNode>> \o nodes ELSE nodes,
             connections |-> connections, subpatches |-> <<>>]
    IN  [status |-> "ok", root |-> 0, canvases |-> <<root>>]

\* buildPatch: build, then serialize
buildPatch(spec) == serializePatch(buildPatchFromSpec(spec))

-----------------------------------------------------------------------------
(* Round trip: a text is written statement by statement, parsed,           *)
(* serialized and parsed again.                                            *)

\* most statements written into a source text
MaxStmts == 4

Line(words) == Join([i \in 1..Len(words) |-> <<words[i]>>], " ")

\* the statements a source text is written from, each with its terminator:
\* a canvas header with a font size (a root, or a subpatch without name), a
\* named subpatch header, a message that holds a line break and an escaped
\* semicolon, an object named pd, a connection, a restore that names the
\* subpatch and one that does not, a comment that ends in a backslash, and
\* a line of array data
SourceLines ==
    { Line(<<"#N", "canvas", "0", "50", "800", "600", "12">>) \o <<";", "\n">>,
      Line(<<"#N", "canvas", "0", "50", "450", "300", "sub", "0">>) \o <<";", "\n">>,
      Line(<<"#X", "msg", "50", "50", "a">>) \o <<"\n", "\\", ";", " ", "b", ";", "\n">>,
      Line(<<"#X", "obj", "50", "90", "pd">>) \o <<";", "\n">>,
      Line(<<"#X", "connect", "0", "0", "1", "0">>) \o <<";", "\n">>,
      Line(<<"#X", "restore", "50", "90", "pd", "sub">>) \o <<";", "\n">>,
      Line(<<"#X", "restore", "50", "90", "graph">>) \o <<";", "\n">>,
      Line(<<"#X", "text", "50", "50", "a">>) \o <<" ", "\\", " ", ";", "\n">>,
      Line(<<"#A", "0", "1">>) \o <<";", "\n">> }

InitRoundTrip ==
    /\ RackIdle
    /\ patchSpec = EmptySpec /\ source = <<>> /\ ast1 = NotParsed
    /\ pdText = <<>> /\ ast2 = NotParsed /\ stage = "edit"

\* one more statement is written at the end of the source text
WriteStatement ==
    /\ stage = "edit"
    /\ Len(splitStatements(source)) < MaxStmts
    /\ \E line \in SourceLines : source' = source \o line
    /\ UNCHANGED <<wvars, patchSpec, ast1, pdText, ast2, stage>>

\* parsePatch(source)
ParseSource ==
    /\ stage = "edit"
    /\ ast1' = parsePatch(source)
    /\ stage' = "parsed"
    /\ UNCHANGED <<wvars, patchSpec, source, pdText, ast2>>

\* serializePatch of the patch parsePatch returned
SerializeParsed ==
    /\ stage = "parsed"
    /\ ast1.status = "ok"
    /\ pdText' = serializePatch(ast1)
    /\ stage' = "serialized"
    /\ UNCHANGED <<wvars, patchSpec, source, ast1, ast2>>

\* parsePatch of the serialized or built text
ParseSerialized ==
    /\ stage = "serialized"
    /\ ast2' = parsePatch(pdText)
    /\ stage' = "reparsed"
    /\ UNCHANGED <<wvars, patchSpec, source, ast1, pdText>>

NextRoundTrip ==
    \/ WriteStatement
    \/ ParseSource
    \/ SerializeParsed
    \/ ParseSerialized

SpecRoundTrip == InitRoundTrip /\ [][NextRoundTrip]_vars

-----------------------------------------------------------------------------
(* Round-trip agreement of two parsed patches *)

\* the canvases agree on node count, node type and name per index,
\* connection list, and number, names and nesting of subpatches
RECURSIVE CanvasAgrees(_, _, _, _)
CanvasAgrees(h1, c1, h2, c2) ==
    LET a == h1[c1 + 1]
        b == h2[c2 + 1]
    IN  /\ Len(a.nodes) = Len(b.nodes)
        /\ \A i \in 1..Len(a.nodes) :
              a.nodes[i].type = b.nodes[i].type /\ a.nodes[i].name = b.nodes[i].name
        /\ a.connections = b.connections
        /\ Len(a.subpatches) = Len(b.subpatches)
        /\ \A k \in 1..Len(a.subpatches) :
              /\ h1[a.subpatches[k] + 1].name = h2[b.subpatches[k] + 1].name
              /\ CanvasAgrees(h1, a.subpatches[k], h2, b.subpatches[k])

PatchAgrees(p1, p2) ==
    /\ p1.status = "ok" /\ p2.status = "ok"
    /\ CanvasAgrees(p1.canvases, p1.root, p2.canvases, p2.root)

\* the canvases reachable from the root of a parsed patch
RECURSIVE CanvasesUnder(_, _)
CanvasesUnder(heap, id) ==
    {id} \cup UNION {CanvasesUnder(heap, heap[id + 1].subpatches[k]) :
                        k \in 1..Len(heap[id + 1].subpatches)}

\* a node that a restore statement appended: a subpatch placeholder
IsPlaceholder(node) ==
    node.name = <<"pd">> /\ StartsWith(node.raw, <<"#X", " ", "restore">>)

\* in every canvas the nodes named "pd" are the placeholders of its
\* subpatches, one per subpatch: every subpatch was closed by a restore,
\* and no other statement produced a node named "pd"
PlaceholdersMatch(p) ==
    \A id \in CanvasesUnder(p.canvases, p.root) :
        LET canvas == p.canvases[id + 1]
            pds    == {i \in 1..Len(canvas.nodes) : canvas.nodes[i].name = <<"pd">>}
        IN  /\ \A i \in pds : IsPlaceholder(canvas.nodes[i])
            /\ Cardinality(pds) = Len(canvas.subpatches)

\* every subpatch is named by one non-numeric word
SubpatchesNamed(p) ==
    \A id \in CanvasesUnder(p.canvases, p.root) \ {p.root} :
        LET name == p.canvases[id + 1].name
        IN  name # NoString /\ Len(name) >= 1 /\ Number(name) = NaN
            /\ \A i \in 1..Len(name) : ~IsSpace(name[i])

\* no node's source text ends in a backslash, which would escape the
\* semicolon the serializer puts behind it
NoTrailingBackslash(p) ==
    \A id \in CanvasesUnder(p.canvases, p.root) :
        \A i \in 1..Len(p.canvases[id + 1].nodes) :
            LET raw == p.canvases[id + 1].nodes[i].raw
            IN  raw[Len(raw)] # "\\"

-----------------------------------------------------------------------------
(* Builder: a PatchSpec is put together, built into text, and parsed.      *)

\* most nodes of a spec
MaxSpecNodes == 2

\* most connections of a spec
MaxSpecConns == 1

\* the nodes a spec is put together from: an object with a numeric
\* argument and the default type, a message whose second argument is a bare
\* semicolon, a message whose argument holds a semicolon inside ("a;#X obj
\* 0 0 b"), a comment whose words are ";", "#X", "restore", "0", "0", and a
\* number box with a position of its own
SpecNodes ==
    { Node("undefined", <<"osc~">>, << <<"440">> >>, Undefined, Undefined),
      Node("msg", NoString, << <<"a">>, <<";">>, <<"b">> >>, Undefined, Undefined),
      Node("msg", NoString,
           << <<"a", ";", "#X", " ", "obj", " ", "0", " ", "0", " ", "b">> >>,
           Undefined, Undefined),
      Node("text", NoString,
           << <<";">>, <<"#X">>, <<"restore">>, <<"0">>, <<"0">> >>,
           Undefined, Undefined),
      Node("floatatom", NoString, <<>>, 10, 20) }

\* the titles a spec may be given
SpecTitles == { <<"Test", " ", "Patch">> }

InitBuild ==
    /\ RackIdle
    /\ patchSpec = EmptySpec /\ source = <<>> /\ ast1 = NotParsed
    /\ pdText = <<>> /\ ast2 = NotParsed /\ stage = "spec"

\* spec.nodes gets one more node
AddNode ==
    /\ stage = "spec"
    /\ Len(patchSpec.nodes) < MaxSpecNodes
    /\ \E nspec \in SpecNodes :
          patchSpec' = [patchSpec EXCEPT !.nodes = Append(@, nspec)]
    /\ UNCHANGED <<wvars, source, ast1, pdText, ast2, stage>>

\* spec.connections gets one more connection between nodes of the spec
AddConnection ==
    /\ stage = "spec"
    /\ Len(patchSpec.connections) < MaxSpecConns
    /\ \E from, to \in 0..(Len(patchSpec.nodes) - 1) :
          patchSpec' = [patchSpec EXCEPT
                          !.connections = Append(@, Conn(from, Undefined, to, Undefined))]
    /\ UNCHANGED <<wvars, source, ast1, pdText, ast2, stage>>

\* the spec is given a title
SetTitle ==
    /\ stage = "spec"
    /\ patchSpec.title = NoString
    /\ \E title \in SpecTitles : patchSpec' = [patchSpec EXCEPT !.title = title]
    /\ UNCHANGED <<wvars, source, ast1, pdText, ast2, stage>>

\* buildPatch(spec)
BuildPatch ==
    /\ stage = "spec"
    /\ pdText' = buildPatch(patchSpec)
    /\ stage' = "serialized"
    /\ UNCHANGED <<wvars, patchSpec, source, ast1, ast2>>

NextBuild ==
    \/ AddNode
    \/ AddConnection
    \/ SetTitle
    \/ BuildPatch
    \/ ParseSerialized

SpecBuild == InitBuild /\ [][NextBuild]_vars

\* the root canvas of a parsed patch
RootOf(p) == p.canvases[p.root + 1]

\* C5 (as claimed): for every spec, parsePatch(buildPatch(spec)) succeeds
\* with as many root nodes as the spec has (one more with a title) and as
\* many connections as the spec has, whatever the node arguments contain
C5_AsClaimed ==
    stage = "reparsed" =>
        /\ ast2.status = "ok"
        /\ Len(RootOf(ast2).nodes) =
              Len(patchSpec.nodes) + (IF Truthy(patchSpec.title) THEN 1 ELSE 0)
        /\ Len(RootOf(ast2).connections) = Len(patchSpec.connections)

-----------------------------------------------------------------------------
(* Vocabulary of the single-wire claims *)

FromAbs(mods, w) == OutPortOf(mods, w).nodeIndex + ModById(mods, w.from).nodeOffset
IoFromAbs(mods, w) == OutPortOf(mods, w).ioNodeIndex + ModById(mods, w.from).nodeOffset
HasSrcTerminal(mods, w) == OutPortOf(mods, w).ioNodeIndex # Undefined
HasDstTerminal(mods, w) == InPortOf(mods, w).ioNodeIndex # Undefined
ControlWire(mods, w) == WireResolves(mods, w) /\ OutPortOf(mods, w).type = "control"
\* the call applied exactly the one wire wiring[1]
SingleWire == Succeeded /\ Len(wiring) = 1
ConnsFrom(conns, n) == {k \in 1..Len(conns) : conns[k].from = n}
ConnsTo(conns, n) == {k \in 1..Len(conns) : conns[k].to = n}

(* C11: a single audio wire A.out -> B.in between ports that declare no    *)
(* terminal node, applied to a node list of length n, appends exactly two  *)
(* nodes (throw~ at index n, catch~ at index n+1, both with the one        *)
(* argument "<A>__<output port name>") and exactly two connections (A's    *)
(* port node at the port's outlet -> throw~ inlet 0, catch~ outlet 0 ->    *)
(* B's port node at the port's inlet), and removes or changes no existing  *)
(* node or connection.                                                     *)
C11_SingleAudioWire ==
    ( /\ SingleWire /\ AudioWire(modules, wiring[1])
      /\ ~HasSrcTerminal(modules, wiring[1]) /\ ~HasDstTerminal(modules, wiring[1]) )
    => LET w   == wiring[1]
           n   == Len(preNodes)
           bus == ClaimedBus(w)
       IN  /\ Len(allNodes) = n + 2
           /\ SubSeq(allNodes, 1, n) = preNodes
           /\ allNodes[n + 1].name = <<"throw~">> /\ allNodes[n + 1].args = <<bus>>
           /\ allNodes[n + 2].name = <<"catch~">> /\ allNodes[n + 2].args = <<bus>>
           /\ allConnections = preConns \o
                 << Conn(FromAbs(modules, w), OutPortOf(modules, w).port, n, 0),
                    Conn(n + 1, 0, ToAbs(modules, w), InPortOf(modules, w).port) >>

\* the destination port is inlet 1 of its node, on lists holding connections
C11_Witness ==
    /\ SingleWire /\ AudioWire(modules, wiring[1])
    /\ ~HasSrcTerminal(modules, wiring[1]) /\ ~HasDstTerminal(modules, wiring[1])
    /\ InPortOf(modules, wiring[1]).port = 1
    /\ Len(preConns) > 0 /\ Len(allNodes) = Len(preNodes) + 2

-----------------------------------------------------------------------------
(* Vocabulary of the parse-failure claim, read off the text's statements   *)

StatementsOf(src) ==
    LET st == splitStatements(src) IN [k \in 1..Len(st) |-> normalizeWhitespace(st[k])]
IsCanvasOpen(stmt) == StartsWith(stmt, <<"#N", " ", "canvas">>)
IsXStatement(stmt) == StartsWith(stmt, <<"#X">>)
IsArrayData(stmt) == StartsWith(stmt, <<"#A">>)
IsCanvasClose(stmt) == StartsWith(stmt, <<"#X", " ", "restore">>)
\* the number of canvases open when statement k is reached
RECURSIVE OpenBefore(_, _)
OpenBefore(stmts, k) ==
    IF k <= 1 THEN 0
    ELSE LET d == OpenBefore(stmts, k - 1)
         IN  IF IsCanvasOpen(stmts[k - 1]) THEN d + 1
             ELSE IF IsCanvasClose(stmts[k - 1]) /\ d > 0 THEN d - 1
             ELSE d
NoCanvasOpen(stmts) == \A k \in 1..Len(stmts) : ~IsCanvasOpen(stmts[k])
XOutsideCanvas(stmts) ==
    \E k \in 1..Len(stmts) : IsXStatement(stmts[k]) /\ OpenBefore(stmts, k) = 0
ArrayDataOutsideCanvas(stmts) ==
    \E k \in 1..Len(stmts) : IsArrayData(stmts[k]) /\ OpenBefore(stmts, k) = 0
ParseFailed(ast) == ast.status \notin {"ok", "none"} /\ ast.root = Null /\ ast.canvases = <<>>

(* C12, as claimed: parsePatch fails and returns no patch when the text    *)
(* holds no canvas-open statement, and fails when an element statement     *)
(* (array data included) is met where no canvas is open.                   *)
C12_AsClaimed ==
    stage = "parsed" =>
        LET stmts == StatementsOf(source)
        IN  (NoCanvasOpen(stmts) \/ XOutsideCanvas(stmts) \/ ArrayDataOutsideCanvas(stmts))
                => ParseFailed(ast1)

(* C12, amended: parsePatch fails and returns no patch when the text holds *)
(* no canvas-open statement, and fails when a #X statement is met where no *)
(* canvas is open, before the first canvas-open statement or after the     *)
(* root canvas was closed; an array-data statement met where no canvas is  *)
(* open is skipped without an error.  No partial patch is returned.        *)
C12_ParseRejected ==
    stage = "parsed" =>
        LET stmts   == StatementsOf(source)
            none    == NoCanvasOpen(stmts)
            outside == XOutsideCanvas(stmts)
        IN  /\ (none /\ ~outside) => ast1.status = "no root canvas"
            /\ outside => ast1.status = "Element found outside canvas"
            /\ (none \/ outside) => ParseFailed(ast1)
            /\ (~none /\ ~outside) => ast1.status = "ok"

\* the element follows the close of the root canvas, which holds a node
C12_Witness ==
    /\ stage = "parsed" /\ ParseFailed(ast1)
    /\ LET stmts == StatementsOf(source)
       IN  /\ ~NoCanvasOpen(stmts)
           /\ \E k \in 4..Len(stmts) :
                 /\ IsXStatement(stmts[k]) /\ ~IsCanvasClose(stmts[k])
                 /\ OpenBefore(stmts, k) = 0

-----------------------------------------------------------------------------
(* Both ways a patch comes into being: a text is written and parsed, or a  *)
(* spec is put together, built, and the built text parsed.                 *)

InitPatch == InitRoundTrip \/ InitBuild

NextPatch ==
    \/ NextRoundTrip
    \/ NextBuild

SpecPatch == InitPatch /\ [][NextPatch]_vars

\* node ids of a canvas equal the 0-based positions
IdsDense(canvas) == \A i \in 1..Len(canvas.nodes) : canvas.nodes[i].id = i - 1
AllIdsDense(ast) == \A c \in 1..Len(ast.canvases) : IdsDense(ast.canvases[c])
\* what a node is, apart from the raw text that array data is appended to
Identity(node) == [node EXCEPT !.raw = <<>>]
\* every node of every canvas of `before` is in `after` at the same place
\* with the same id
NodesKept(before, after) ==
    /\ Len(after.canvases) >= Len(before.canvases)
    /\ \A c \in 1..Len(before.canvases) :
          /\ Len(after.canvases[c].nodes) >= Len(before.canvases[c].nodes)
          /\ \A i \in 1..Len(before.canvases[c].nodes) :
                Identity(after.canvases[c].nodes[i]) = Identity(before.canvases[c].nodes[i])

\* statement by statement from the k-th on, starting in context ctx: the
\* ids are dense after each statement, and each statement keeps the nodes
RECURSIVE KeptFrom(_, _, _)
KeptFrom(stmts, k, ctx) ==
    IF k > Len(stmts) \/ ctx.thrown # "none" THEN TRUE
    ELSE LET next == parseStatement(stmts[k], ctx)
         IN  /\ NodesKept(ctx, next) /\ AllIdsDense(next)
             /\ KeptFrom(stmts, k + 1, next)
KeptThroughout(src) == KeptFrom(splitStatements(src), 1, NewContext)

(* C13: in every canvas produced by parsePatch, and in the root canvas     *)
(* built by buildPatch, the node at position i of the node list has id i   *)
(* (dense, from 0, in order of appearance), and processing one more        *)
(* statement leaves every node appended so far with its id at its place.   *)
C13_DenseNodeIds ==
    /\ (ast1.status = "ok" => AllIdsDense(ast1))
    /\ (ast2.status = "ok" => AllIdsDense(ast2))
    /\ (stage \in {"spec", "serialized"} => AllIdsDense(buildPatchFromSpec(patchSpec)))
    /\ (stage = "edit" => KeptThroughout(source))
    /\ (stage = "serialized" => KeptThroughout(pdText))

\* a root with an object followed by the placeholder of a subpatch
C13_Witness ==
    /\ stage = "parsed" /\ ast1.status = "ok"
    /\ Len(ast1.canvases) = 2
    /\ Len(RootOf(ast1).nodes) = 2 /\ RootOf(ast1).nodes[2].name = <<"pd">>
    /\ RootOf(ast1).nodes[2].id = 1

-----------------------------------------------------------------------------
(* Vocabulary of the title claim *)

HasTitle(spec) == spec.title # NoString /\ spec.title # <<>>
\* the built node stands for the spec node: same name and arguments, and the
\* spec's type or "obj" when the spec gives none
BuiltFrom(node, nspec) ==
    /\ node.name = nspec.name /\ node.args = nspec.args
    /\ node.type = <<IF nspec.type = "undefined" THEN "obj" ELSE nspec.type>>
\* the connect statement for node indices from, to with the default ports
ConnectStatement(from, to) == Line(<<"#X", "connect", Str(from), "0", Str(to), "0">>)
\* the spec's nodes and connections appear in root and text moved up by d
BuiltShifted(spec, root, text, d) ==
    LET stmts == StatementsOf(text)
        nc    == Len(spec.connections)
    IN  /\ Len(root.nodes) = Len(spec.nodes) + d
        /\ \A k \in 1..Len(spec.nodes) :
              /\ BuiltFrom(root.nodes[k + d], spec.nodes[k])
              /\ root.nodes[k + d].id = (k - 1) + d
        /\ Len(root.connections) = nc
        /\ \A c \in 1..nc :
              /\ root.connections[c].fromNode = spec.connections[c].from + d
              /\ root.connections[c].toNode = spec.connections[c].to + d
              /\ stmts[Len(stmts) - nc + c] =
                    ConnectStatement(spec.connections[c].from + d,
                                     spec.connections[c].to + d)

(* C14: when buildPatch is given a title, the title comment is node 0,     *)
(* spec node k is node k+1, and every spec connection (from, to) is        *)
(* emitted as (from+1, to+1), shifted exactly once; without a title nodes  *)
(* and connections keep the indices of the spec.                           *)
C14_TitleShiftsOnce ==
    stage = "serialized" =>
        LET root == RootOf(buildPatchFromSpec(patchSpec))
        IN  IF HasTitle(patchSpec)
            THEN /\ root.nodes[1].id = 0 /\ root.nodes[1].type = <<"text">>
                 /\ root.nodes[1].args = <<patchSpec.title>>
                 /\ BuiltShifted(patchSpec, root, pdText, 1)
            ELSE BuiltShifted(patchSpec, root, pdText, 0)

\* a titled spec with two nodes and a connection between them
C14_Witness ==
    /\ stage = "serialized" /\ HasTitle(patchSpec)
    /\ Len(patchSpec.nodes) = 2 /\ Len(patchSpec.connections) = 1
    /\ patchSpec.connections[1].from = 0 /\ patchSpec.connections[1].to = 1
    /\ ConnectStatement(1, 2) \in Range(StatementsOf(pdText))

-----------------------------------------------------------------------------
(* Vocabulary of the index claims *)

ValidIndex(nodes, i) == i \in 0..(Len(nodes) - 1)
ConnsValid(nodes, conns) ==
    \A k \in 1..Len(conns) : ValidIndex(nodes, conns[k].from) /\ ValidIndex(nodes, conns[k].to)
PortsValid(nodes, mods) ==
    \A m \in Range(mods) : \A p \in Range(m.ports) :
        /\ ValidIndex(nodes, p.nodeIndex + m.nodeOffset)
        /\ p.ioNodeIndex # Undefined => ValidIndex(nodes, p.ioNodeIndex + m.nodeOffset)

(* C15: if before the call every connection index is valid and every      *)
(* port's nodeIndex and ioNodeIndex plus the module's offset addresses an  *)
(* existing node, then after a successful applyWiring the source and the   *)
(* destination of every connection are valid indices into the extended     *)
(* node list.                                                              *)
C15_IndicesValid ==
    (Succeeded /\ ConnsValid(preNodes, preConns) /\ PortsValid(preNodes, modules))
        => ConnsValid(allNodes, allConnections)

\* an audio wire into a terminal input and a control wire, whose relay
\* nodes are the ends of connections
C15_Witness ==
    /\ Succeeded /\ Len(wiring) = 2
    /\ ConnsValid(preNodes, preConns) /\ PortsValid(preNodes, modules)
    /\ AudioWire(modules, wiring[1]) /\ HasDstTerminal(modules, wiring[1])
    /\ ControlWire(modules, wiring[2])
    /\ Len(allNodes) = Len(preNodes) + 4
    /\ \A i \in Len(preNodes)..(Len(preNodes) + 3) :
          \E c \in Range(allConnections) : c.from = i \/ c.to = i

-----------------------------------------------------------------------------
(* Vocabulary of the control-bus claims *)

ControlWires(mods, ws) == {k \in 1..Len(ws) : ControlWire(mods, ws[k])}
\* the control wires of ws on the bus of wire w
OnBusOf(mods, ws, w) ==
    {k \in ControlWires(mods, ws) : ws[k].from = w.from /\ ws[k].output = w.output}
\* 0-based indices of the nodes with one of the names that the call appended
Appended(names) ==
    {i \in Len(preNodes)..(Len(allNodes) - 1) : allNodes[i + 1].name \in names}

(* C16: every control wire appends its own send/receive pair.  A batch     *)
(* with n control wires appends exactly 2n send and receive nodes, n of    *)
(* each, also when several of the wires share the source module and the    *)
(* output port: a bus named by k wires has k send and k receive nodes.     *)
C16_ControlPairPerWire ==
    Succeeded =>
        LET n == Cardinality(ControlWires(modules, wiring))
        IN  /\ Cardinality(Appended({<<"send">>, <<"receive">>})) = 2 * n
            /\ Cardinality(Appended({<<"send">>})) = n
            /\ Cardinality(Appended({<<"receive">>})) = n
            /\ \A k \in ControlWires(modules, wiring) :
                  LET bus  == ClaimedBus(wiring[k])
                      same == Cardinality(OnBusOf(modules, wiring, wiring[k]))
                  IN  /\ Cardinality(NodesNamed(allNodes, <<"send">>, bus)) = same
                      /\ Cardinality(NodesNamed(allNodes, <<"receive">>, bus)) = same

\* two control wires from one output port
C16_Witness ==
    /\ Succeeded /\ Len(wiring) = 2
    /\ ControlWire(modules, wiring[1]) /\ ControlWire(modules, wiring[2])
    /\ wiring[1].from = wiring[2].from /\ wiring[1].output = wiring[2].output
    /\ Len(allNodes) = Len(preNodes) + 4

-----------------------------------------------------------------------------
(* Vocabulary of the per-wire claims: the lists between two wires of a     *)
(* successful call                                                         *)

\* wire k is an audio wire into an input port that declares a terminal node
AudioIntoTerminal(k) ==
    AudioWire(modules, wiring[k]) /\ HasDstTerminal(modules, wiring[k])
\* the 0-based index of the one node with the name and the bus of wire w
RelayOf(nodes, nm, w) == CHOOSE i \in NodesNamed(nodes, nm, ClaimedBus(w)) : TRUE
\* every connection of `before` sourced at t is in `after` sourced at relay,
\* otherwise the same, and nothing is sourced at t any more
Redirected(before, after, t, relay) ==
    /\ \A c \in Range(before) : c.from = t => [c EXCEPT !.from = relay] \in Range(after)
    /\ ConnsFrom(after, t) = {}

(* C17, as claimed: for an audio wire whose input port declares terminal   *)
(* node T, the connections sourced at T are re-sourced at the bus's catch~ *)
(* and afterwards the number of connections sourced at catch~ equals the   *)
(* number sourced at T before the wire.                                    *)
C17_AsClaimed ==
    Succeeded =>
        \A k \in 1..Len(wiring) :
            AudioIntoTerminal(k) =>
                LET before == StateAfter(k - 1).conns
                    after  == StateAfter(k)
                    T      == IoToAbs(modules, wiring[k])
                    catch  == RelayOf(after.nodes, <<"catch~">>, wiring[k])
                IN  /\ Redirected(before, after.conns, T, catch)
                    /\ Cardinality(ConnsFrom(after.conns, catch))
                          = Cardinality(ConnsFrom(before, T))

(* C17, amended: for an audio wire whose input port declares terminal node *)
(* T, every connection sourced at T before the wire has its source         *)
(* replaced by the bus's catch~ with outlet, destination and inlet         *)
(* unchanged; none is dropped, no connection is sourced at T afterwards,   *)
(* and the number of connections sourced at catch~ grows by the number     *)
(* that were sourced at T (it equals that number when the wire is the      *)
(* first of its bus).                                                      *)
C17_TerminalRedirected ==
    Succeeded =>
        /\ StateAfter(Len(wiring)).conns = allConnections
        /\ StateAfter(Len(wiring)).nodes = allNodes
        /\ \A k \in 1..Len(wiring) :
            AudioIntoTerminal(k) =>
                LET before == StateAfter(k - 1)
                    after  == StateAfter(k)
                    T      == IoToAbs(modules, wiring[k])
                    catch  == RelayOf(after.nodes, <<"catch~">>, wiring[k])
                    first  == NodesNamed(before.nodes, <<"catch~">>, ClaimedBus(wiring[k])) = {}
                IN  /\ Redirected(before.conns, after.conns, T, catch)
                    /\ Cardinality(ConnsFrom(after.conns, catch))
                          = Cardinality(ConnsFrom(before.conns, catch))
                              + Cardinality(ConnsFrom(before.conns, T))
                    /\ first => Cardinality(ConnsFrom(after.conns, catch))
                                   = Cardinality(ConnsFrom(before.conns, T))

\* a single wire into a terminal node that feeds two nodes of its module
C17_Witness ==
    /\ SingleWire /\ AudioIntoTerminal(1)
    /\ Cardinality(ConnsFrom(preConns, IoToAbs(modules, wiring[1]))) = 2
    /\ Cardinality(ConnsFrom(allConnections, Len(preNodes) + 1)) = 2
    /\ ConnsFrom(allConnections, IoToAbs(modules, wiring[1])) = {}

\* wire k is a control wire into an input port that declares a terminal node
ControlIntoTerminal(k) ==
    ControlWire(modules, wiring[k]) /\ HasDstTerminal(modules, wiring[k])
\* the 0-based indices of the send and the receive node that wire k appended
SendOf(k) == Len(StateAfter(k - 1).nodes)
ReceiveOf(k) == Len(StateAfter(k - 1).nodes) + 1
ConnsBetween(conns, a, b) == {i \in 1..Len(conns) : conns[i].from = a /\ conns[i].to = b}

C19_ReceiveFeedsPort ==
    Succeeded =>
        \A k \in 1..Len(wiring) :
            ControlIntoTerminal(k) =>
                LET after == StateAfter(k)
                    T     == IoToAbs(modules, wiring[k])
                    P     == ToAbs(modules, wiring[k])
                    recv  == ReceiveOf(k)
                IN  /\ ConnsBetween(after.conns, T, P) = {}
                    /\ ConnsBetween(allConnections, T, P) = {}
                    /\ after.nodes[recv + 1].name = <<"receive">>
                    /\ recv = Len(after.nodes) - 1
                    /\ Conn(recv, 0, P, InPortOf(modules, wiring[k]).port)
                          \in Range(after.conns) \cap Range(allConnections)

\* the clock of one sequencer drives the counter of the other
C19_Witness ==
    /\ SingleWire /\ ControlIntoTerminal(1)
    /\ ConnsBetween(preConns, IoToAbs(modules, wiring[1]), ToAbs(modules, wiring[1])) # {}
    /\ allNodes[Len(allNodes)].name = <<"receive">>
    /\ allConnections[Len(allConnections)]
          = Conn(Len(allNodes) - 1, 0, ToAbs(modules, wiring[1]),
                 InPortOf(modules, wiring[1]).port)

-----------------------------------------------------------------------------
(* Vocabulary of the source-side claim *)

\* wire k is an audio wire from an output port that declares a terminal node
AudioFromTerminal(k) ==
    AudioWire(modules, wiring[k]) /\ HasSrcTerminal(modules, wiring[k])
\* no earlier audio wire of the batch is on the bus of wire k, the buses
\* being told apart by their names
FirstOfBus(k) ==
    \A j \in 1..(k - 1) :
        AudioWire(modules, wiring[j]) => ClaimedBus(wiring[j]) # ClaimedBus(wiring[k])
\* the connections the destination side of wire k adds: none when the input
\* port declares a terminal node (its connections are re-sourced), else one
AddedAtDestination(k) == IF HasDstTerminal(modules, wiring[k]) THEN 0 ELSE 1
\* connection c of the list before wire k is in the list after it, as it
\* was or re-sourced at the catch~ node by the destination side
KeptBy(k, c, after) ==
    \/ c \in Range(after.conns)
    \/ /\ HasDstTerminal(modules, wiring[k]) /\ c.from = IoToAbs(modules, wiring[k])
       /\ [c EXCEPT !.from = RelayOf(after.nodes, <<"catch~">>, wiring[k])]
             \in Range(after.conns)

-----------------------------------------------------------------------------
(* Vocabulary of the wire-order claim *)

\* the wire lists with the wires of ws in another order
Reorderings(ws) ==
    {[k \in 1..Len(ws) |-> ws[p[k]]] :
        p \in {q \in [1..Len(ws) -> 1..Len(ws)] : \A i, j \in 1..Len(ws) : q[i] = q[j] => i = j}}
\* the call's lists once the first j wires of ws are applied to the pre-call lists
AfterOn(ws, j) ==
    ApplyWires(CallState(preNodes, preConns, "none"), modules, SubSeq(ws, 1, j), 1)
\* the 0-based index of the first relay node (throw~ or send) that serves
\* wire w when the list ws is applied; its second (catch~ or receive) follows
PairOf(ws, w) ==
    IF AudioWire(modules, w)
    THEN RelayOf(AfterOn(ws, Len(ws)).nodes, <<"throw~">>, w)
    ELSE LET k == CHOOSE j \in 1..Len(ws) : ws[j] = w
         IN  Len(AfterOn(ws, k - 1).nodes)
\* index i of the lists built from ws2, renumbered to the index the same
\* node has in the lists built from ws1: relay nodes follow their wires
Renumbered(ws1, ws2, i) ==
    IF i < Len(preNodes) THEN i
    ELSE LET w == CHOOSE x \in Range(ws2) : i \in {PairOf(ws2, x), PairOf(ws2, x) + 1}
         IN  PairOf(ws1, w) + (i - PairOf(ws2, w))
\* how often connection c occurs in conns
Occurrences(conns, c) == Cardinality({k \in 1..Len(conns) : conns[k] = c})
\* the lists built from ws2 describe the topology of those built from ws1
SameTopology(ws1, ws2) ==
    LET r1 == AfterOn(ws1, Len(ws1))
        r2 == AfterOn(ws2, Len(ws2))
        moved == [k \in 1..Len(r2.conns) |->
                    [r2.conns[k] EXCEPT !.from = Renumbered(ws1, ws2, r2.conns[k].from),
                                        !.to   = Renumbered(ws1, ws2, r2.conns[k].to)]]
    IN  /\ Len(r1.nodes) = Len(r2.nodes)
        /\ \A i \in 0..(Len(r2.nodes) - 1) :
              r1.nodes[Renumbered(ws1, ws2, i) + 1] = r2.nodes[i + 1]
        /\ Len(r1.conns) = Len(r2.conns)
        /\ \A c \in Range(r1.conns) \cup Range(moved) :
              Occurrences(r1.conns, c) = Occurrences(moved, c)

(* C21: for a valid wire batch the order of the wires affects only the     *)
(* order in which relay nodes are created: every reordering of the wires,  *)
(* applied to the same lists, gives node and connection lists that are     *)
(* equal up to the numbering of the appended relay nodes and the order of  *)
(* the connection entries.                                                 *)
C21_AsClaimed ==
    (Succeeded /\ Len(wiring) > 0) =>
        /\ AfterOn(wiring, Len(wiring)).nodes = allNodes
        /\ AfterOn(wiring, Len(wiring)).conns = allConnections
        /\ \A ws \in Reorderings(wiring) :
              /\ validateWiring(modules, ws) = "none"
              /\ SameTopology(wiring, ws)

-----------------------------------------------------------------------------
(* Vocabulary of the resolution claim *)

\* the node references the apply phase computes for wire w all address
\* nodes of the list `nodes`
RefsResolve(nodes, mods, w) ==
    /\ WireResolves(mods, w)
    /\ ValidIndex(nodes, FromAbs(mods, w))
    /\ ValidIndex(nodes, ToAbs(mods, w))
    /\ HasSrcTerminal(mods, w) => ValidIndex(nodes, IoFromAbs(mods, w))
    /\ HasDstTerminal(mods, w) => ValidIndex(nodes, IoToAbs(mods, w))

-----------------------------------------------------------------------------
(* Vocabulary of the unwired-module claim *)

\* the 0-based indices of the nodes of the i-th module in the list passed
\* in: from its offset up to the label of the next module, or the end
RangeOf(mods, i) ==
    mods[i].nodeOffset ..
        (IF i < Len(mods) THEN mods[i + 1].nodeOffset - 2 ELSE Len(preNodes) - 1)
\* no wire of ws names the module id
Unwired(ws, id) == \A k \in 1..Len(ws) : ws[k].from # id /\ ws[k].to # id
\* the connections of conns with both ends in the index set S, in order
Within(conns, S) == SelectSeq(conns, LAMBDA c : c.from \in S /\ c.to \in S)
\* the i-th module declares an output port with a terminal node that has
\* a connection into it in conns
TerminalFed(mods, conns, i) ==
    \E p \in Range(mods[i].ports) :
        /\ p.direction = "output" /\ p.ioNodeIndex # Undefined
        /\ ConnsTo(conns, p.ioNodeIndex + mods[i].nodeOffset) # {}

(* C23: after a successful applyWiring, for every module that no wire of   *)
(* the batch names, the connections with both ends among that module's     *)
(* nodes are the same entries, in the same order, as before the call; the  *)
(* connections into its terminal output node are among them.               *)
C23_UnwiredUntouched ==
    Succeeded =>
        \A i \in 1..Len(modules) :
            Unwired(wiring, modules[i].id) =>
                Within(allConnections, RangeOf(modules, i)) =
                    Within(preConns, RangeOf(modules, i))

\* a wire that severs the terminal output node of its source module while a
\* third module, named by no wire, keeps the connections into its own
C23_Witness ==
    /\ Succeeded /\ Len(wiring) >= 1
    /\ HasSrcTerminal(modules, wiring[1])
    /\ ConnsTo(preConns, IoFromAbs(modules, wiring[1])) # {}
    /\ ConnsTo(allConnections, IoFromAbs(modules, wiring[1])) = {}
    /\ \E i \in 1..Len(modules) :
          /\ Unwired(wiring, modules[i].id)
          /\ TerminalFed(modules, allConnections, i)
          /\ Within(allConnections, RangeOf(modules, i)) # <<>>

-----------------------------------------------------------------------------
(* Vocabulary of the nesting claim: what one statement does to the parse   *)
(* context, for a statement stmt taken in context ctx and leaving next     *)

\* the nodes of a node list that restore statements appended, in order
Placeholders(nodes) == SelectSeq(nodes, IsPlaceholder)
\* the name a canvas-close statement gives: the words after its first "pd"
NameInClose(stmt) ==
    LET tokens == tokenize(stmt)
    IN  IF IndexOfPd(tokens) >= 0 THEN Join(Slice(tokens, IndexOfPd(tokens) + 1), " ")
        ELSE NoString
\* every canvas of ctx other than those with the ids in `except` is the same in next
OthersSame(ctx, next, except) ==
    \A c \in 1..Len(ctx.canvases) : (c - 1) \notin except => next.canvases[c] = ctx.canvases[c]
\* a canvas-open taken while a canvas is open: the new canvas is a subpatch,
\* the last child of the canvas on top of the stack, and the new top
OpenStep(ctx, next) ==
    LET top == Current(ctx)
        new == ctx.nextCanvasId
    IN  /\ Len(next.canvases) = Len(ctx.canvases) + 1
        /\ next.canvases[new + 1].id = new /\ next.canvases[new + 1].isSubpatch
        /\ next.canvases[top + 1] =
              [ctx.canvases[top + 1] EXCEPT !.subpatches = Append(@, new)]
        /\ next.canvasStack = Append(ctx.canvasStack, new)
        /\ next.root = ctx.root
        /\ OthersSame(ctx, next, {top})
\* the placeholder ph carries the name of the closed subpatch
CarriesSubpatchName(ph, sub) == Truthy(sub.name) => ph.args = <<sub.name>>
\* the placeholder ph carries the name the close statement gives, if any,
\* and a subpatch without a name of its own takes that name
CarriesCloseName(ph, stmt, subBefore, subAfter) ==
    /\ ph.args = IF Truthy(NameInClose(stmt)) THEN <<NameInClose(stmt)>> ELSE <<>>
    /\ subAfter.name = IF Truthy(NameInClose(stmt)) /\ ~Truthy(subBefore.name)
                       THEN NameInClose(stmt) ELSE subBefore.name
\* a canvas-close taken while a subpatch is open: the subpatch is popped and
\* its parent gets one more node, the placeholder, at its next free index;
\* it is the placeholder of the subpatch at the same place among the
\* parent's subpatches
CloseStep(ctx, stmt, next, asClaimed) ==
    LET sub    == Current(ctx)
        parent == ctx.canvasStack[Len(ctx.canvasStack) - 1]
        before == ctx.canvases[parent + 1].nodes
        after  == next.canvases[parent + 1].nodes
        ph     == after[Len(after)]
    IN  /\ next.canvasStack = SubSeq(ctx.canvasStack, 1, Len(ctx.canvasStack) - 1)
        /\ Len(next.canvases) = Len(ctx.canvases)
        /\ after = Append(before, ph)
        /\ ph.id = Len(before) /\ ph.type = <<"obj">> /\ ph.name = <<"pd">>
        /\ IsPlaceholder(ph)
        /\ IF asClaimed THEN CarriesSubpatchName(ph, next.canvases[sub + 1])
           ELSE CarriesCloseName(ph, stmt, ctx.canvases[sub + 1], next.canvases[sub + 1])
        /\ next.canvases[parent + 1] = [ctx.canvases[parent + 1] EXCEPT !.nodes = after]
        /\ next.canvases[sub + 1].nodes = ctx.canvases[sub + 1].nodes
        /\ next.canvases[parent + 1].subpatches[Len(Placeholders(after))] = sub
        /\ OthersSame(ctx, next, {sub, parent})
\* any other element statement taken while a canvas is open changes the
\* canvas on top of the stack alone, and takes no node from it
ElementStep(ctx, next) ==
    LET top == Current(ctx)
    IN  /\ next.canvasStack = ctx.canvasStack
        /\ OthersSame(ctx, next, {top})
        /\ Len(next.canvases[top + 1].nodes) >= Len(ctx.canvases[top + 1].nodes)
        /\ next.canvases[top + 1].subpatches = ctx.canvases[top + 1].subpatches
\* statement by statement from the k-th on, starting in context ctx
RECURSIVE NestedFrom(_, _, _, _)
NestedFrom(stmts, k, ctx, asClaimed) ==
    IF k > Len(stmts) \/ ctx.thrown # "none" THEN TRUE
    ELSE LET stmt == stmts[k]
             next == parseStatement(stmt, ctx)
         IN  /\ IF IsCanvasOpen(stmt)
                THEN Len(ctx.canvasStack) > 0 => OpenStep(ctx, next)
                ELSE IF IsCanvasClose(stmt)
                THEN Len(ctx.canvasStack) >= 2 => CloseStep(ctx, stmt, next, asClaimed)
                ELSE (IsXStatement(stmt) /\ Len(ctx.canvasStack) > 0) => ElementStep(ctx, next)
             /\ NestedFrom(stmts, k + 1, next, asClaimed)
\* the first statement opens the root, the root is never closed, and every
\* subpatch opened is closed
ProperlyNested(stmts) ==
    /\ Len(stmts) > 0 /\ IsCanvasOpen(stmts[1])
    /\ \A k \in 2..Len(stmts) : OpenBefore(stmts, k) >= 1
    /\ OpenBefore(stmts, Len(stmts) + 1) = 1
\* every canvas has as many placeholders as subpatches
PlaceholderPerSubpatch(ast) ==
    \A c \in 1..Len(ast.canvases) :
        Len(Placeholders(ast.canvases[c].nodes)) = Len(ast.canvases[c].subpatches)

(* C24, as claimed: in a parse, a canvas-open taken while a canvas is open *)
(* makes the new canvas a subpatch child of the canvas on top of the       *)
(* stack; the matching close pops it and appends one placeholder object    *)
(* node that carries the subpatch's name to the parent at its next free    *)
(* index; later elements go to the parent; and for properly nested input   *)
(* every canvas ends with as many placeholders as subpatches, in order.    *)
C24_AsClaimed ==
    stage = "parsed" =>
        LET stmts == StatementsOf(source)
        IN  /\ NestedFrom(stmts, 1, NewContext, TRUE)
            /\ (ProperlyNested(stmts) /\ ast1.status = "ok") => PlaceholderPerSubpatch(ast1)

(* C24, amended: as above, except that the placeholder carries the name    *)
(* that the close statement gives after "pd" and no name when it gives     *)
(* none; the closed subpatch takes that name only if it has none yet.      *)
C24_SubpatchNesting ==
    stage = "parsed" =>
        LET stmts == StatementsOf(source)
        IN  /\ NestedFrom(stmts, 1, NewContext, FALSE)
            /\ (ProperlyNested(stmts) /\ ast1.status = "ok") => PlaceholderPerSubpatch(ast1)

\* a root, a subpatch opened and closed by name, and an element after the
\* close that is the root's second node
C24_Witness ==
    /\ stage = "parsed" /\ ast1.status = "ok"
    /\ ProperlyNested(StatementsOf(source))
    /\ Len(ast1.canvases) = 2
    /\ RootOf(ast1).subpatches = <<1>>
    /\ Len(RootOf(ast1).nodes) = 2
    /\ IsPlaceholder(RootOf(ast1).nodes[1]) /\ RootOf(ast1).nodes[1].args = << <<"sub">> >>
    /\ ~IsPlaceholder(RootOf(ast1).nodes[2])
    /\ ast1.canvases[2].nodes = <<>>

-----------------------------------------------------------------------------
(* Vocabulary of the connection-reference claim *)

IsConnect(stmt) == StartsWith(stmt, <<"#X", " ", "connect", " ">>)
\* the connection a connect statement writes down
ConnectionIn(stmt) ==
    LET tokens == tokenize(stmt)
    IN  PdConnection(parseInt(At(tokens, 2)), parseInt(At(tokens, 3)),
                     parseInt(At(tokens, 4)), parseInt(At(tokens, 5)))
\* both indices of connection c are ids of nodes of the canvas
Resolves(canvas, c) ==
    /\ c.fromNode \in 0..(Len(canvas.nodes) - 1)
    /\ c.toNode \in 0..(Len(canvas.nodes) - 1)
NoDangling(ast) ==
    \A i \in 1..Len(ast.canvases) :
        \A c \in Range(ast.canvases[i].connections) : Resolves(ast.canvases[i], c)
\* statement by statement from the k-th on, starting in context ctx: a
\* connect statement with four numbers, taken while a canvas is open, adds
\* the connection it writes down to that canvas and changes nothing else;
\* no other statement adds or removes a connection
RECURSIVE AsWrittenFrom(_, _, _)
AsWrittenFrom(stmts, k, ctx) ==
    IF k > Len(stmts) \/ ctx.thrown # "none" THEN TRUE
    ELSE LET stmt == stmts[k]
             next == parseStatement(stmt, ctx)
             top  == Current(ctx)
         IN  /\ IF IsConnect(stmt) /\ top # Null /\ Len(tokenize(stmt)) >= 6
                THEN next = [ctx EXCEPT !.canvases[top + 1].connections =
                                           Append(@, ConnectionIn(stmt))]
                ELSE \A c \in 1..Len(ctx.canvases) :
                        next.canvases[c].connections = ctx.canvases[c].connections
             /\ AsWrittenFrom(stmts, k + 1, next)

(* C25, as claimed: in every canvas of a patch returned by parsePatch,     *)
(* both indices of each connection refer to nodes that exist in that       *)
(* canvas.                                                                 *)
C25_AsClaimed ==
    (stage = "parsed" /\ ast1.status = "ok") => NoDangling(ast1)

(* C25, amended: parsePatch does not check connection indices; every       *)
(* connect statement with four numbers adds the connection it writes down  *)
(* to the canvas open at that point whether or not the canvas has nodes    *)
(* with those indices, and no other statement changes a connection list.   *)
C25_ConnectionsAsWritten ==
    stage = "parsed" => AsWrittenFrom(StatementsOf(source), 1, NewContext)

\* a root with one node and a connection from it to a node that does not exist
C25_Witness ==
    /\ stage = "parsed" /\ ast1.status = "ok"
    /\ Len(RootOf(ast1).nodes) = 1
    /\ RootOf(ast1).connections = << PdConnection(0, 0, 1, 0) >>
    /\ ~Resolves(RootOf(ast1), RootOf(ast1).connections[1])

-----------------------------------------------------------------------------
(* Vocabulary of the offset claim *)

\* the lists as the module loop of buildCombinedPatch left them
LaidOutNodes == IF Called THEN preNodes ELSE allNodes
LaidOutConns == IF Called THEN preConns ELSE allConnections
\* the number of nodes of the first i modules of the rack
RECURSIVE NodesOfFirst(_, _)
NodesOfFirst(mods, i) ==
    IF i = 0 THEN 0 ELSE NodesOfFirst(mods, i - 1) + Len(mods[i].spec.nodes)
\* the node is the section label of module m
IsLabelOf(node, m) ==
    /\ node.type = "text"
    /\ node.args = << <<"===", " ">> \o toUpperCase(m.name) \o <<" ", "===">> >>
\* the i-th module of the rack is laid out at the offset its descriptor
\* records: behind the title, the earlier modules and its own label
PlacedAtOffset(i) ==
    LET m   == Racks[rackId].mods[i]
        off == modules[i].nodeOffset
    IN  /\ modules[i].id = m.id
        /\ off = 1 + NodesOfFirst(Racks[rackId].mods, i - 1) + i
        /\ IsLabelOf(LaidOutNodes[off], m)
        /\ \A k \in 0..(Len(m.spec.nodes) - 1) :
              /\ LaidOutNodes[off + k + 1].name = m.spec.nodes[k + 1].name
              /\ LaidOutNodes[off + k + 1].args = m.spec.nodes[k + 1].args
        /\ \A c \in Range(m.spec.connections) :
              Conn(c.from + off, c.outlet, c.to + off, c.inlet) \in Range(LaidOutConns)
\* the spec that buildCombinedPatch hands to buildPatch
CombinedSpec == [title |-> NoString, nodes |-> allNodes, connections |-> allConnections]
\* the root canvas built from the spec has the spec's nodes and connections
\* under the spec's own indices
BuiltUnshifted(spec) ==
    LET root == RootOf(buildPatchFromSpec(spec))
    IN  /\ Len(root.nodes) = Len(spec.nodes)
        /\ \A p \in 1..Len(spec.nodes) :
              /\ root.nodes[p].id = p - 1
              /\ root.nodes[p].name = spec.nodes[p].name
              /\ root.nodes[p].args = spec.nodes[p].args
        /\ Len(root.connections) = Len(spec.connections)
        /\ \A c \in 1..Len(spec.connections) :
              root.connections[c] =
                  PdConnection(spec.connections[c].from, spec.connections[c].outlet,
                               spec.connections[c].to, spec.connections[c].inlet)

(* C26: in the combined rack patch the nodeOffset recorded for each module *)
(* is the index of the module's local node 0 in the combined list, behind  *)
(* the rack title and the module's own section label; local node k is at   *)
(* nodeOffset + k; every connection (from, to) of the module is laid out   *)
(* as (from + nodeOffset, to + nodeOffset); and the patch built from the   *)
(* combined spec keeps every index as it is.                               *)
C26_OffsetsAreIndices ==
    /\ phase \in {"layout", "called"} =>
          /\ LaidOutNodes[1].args = << <<"===", " ", "RACK", " ", "===">> >>
          /\ \A i \in 1..Len(modules) : PlacedAtOffset(i)
    /\ Succeeded => BuiltUnshifted(CombinedSpec)

\* a rack of three modules, the third one behind five nodes and three
\* labels, wired by two wires and built
C26_Witness ==
    /\ Succeeded /\ Len(wiring) = 2 /\ Len(modules) = 3
    /\ modules[3].nodeOffset = 9
    /\ Len(allNodes) > Len(preNodes)
    /\ \A i \in 1..3 : PlacedAtOffset(i)
    /\ BuiltUnshifted(CombinedSpec)

-----------------------------------------------------------------------------
(* Vocabulary of the bus-identity claim *)

\* the audio wires of the batch
AudioWires == {k \in 1..Len(wiring) : AudioWire(modules, wiring[k])}
\* the (module id, output port name) pairs the audio wires start from
AudioSources == {<<wiring[k].from, wiring[k].output>> : k \in AudioWires}
\* wires j and k start from the same output port of the same module
SameSource(j, k) ==
    wiring[j].from = wiring[k].from /\ wiring[j].output = wiring[k].output

(* C27: after a successful applyWiring, two audio wires of the batch share *)
(* a throw~/catch~ pair only if they have the same source module id and    *)
(* the same output port name: wires from distinct (module id, output port  *)
(* name) pairs have distinct bus names and distinct relay pairs, whatever  *)
(* the ids and the port names are.                                         *)
C27_AsClaimed ==
    Succeeded =>
        /\ \A j, k \in AudioWires :
              ~SameSource(j, k) =>
                  /\ ClaimedBus(wiring[j]) # ClaimedBus(wiring[k])
                  /\ RelayOf(allNodes, <<"throw~">>, wiring[j])
                        # RelayOf(allNodes, <<"throw~">>, wiring[k])
        /\ Cardinality(Appended({<<"throw~">>})) = Cardinality(AudioSources)
        /\ Cardinality(Appended({<<"catch~">>})) = Cardinality(AudioSources)

-----------------------------------------------------------------------------
(* Vocabulary of the root claim *)

\* the ids of all canvases of a parsed patch
CanvasIds(ast) == 0..(Len(ast.canvases) - 1)
\* the root is the first canvas opened, is not flagged as a subpatch, and
\* every canvas is the root or a descendant of it
FirstCanvasIsRoot(ast) ==
    /\ ast.root = 0
    /\ ~RootOf(ast).isSubpatch
    /\ CanvasesUnder(ast.canvases, ast.root) = CanvasIds(ast)

(* C28: for every text parsePatch accepts, the returned root is the first  *)
(* canvas opened, it has isSubpatch = false, and every canvas opened later *)
(* is a descendant of it: no close and open statements replace the root.   *)
C28_AsClaimed ==
    (stage = "parsed" /\ ast1.status = "ok") => FirstCanvasIsRoot(ast1)

-----------------------------------------------------------------------------
(* Vocabulary of the realisation claim *)

\* the position in the module list of the module with the given id
ModIndex(mods, id) == CHOOSE i \in 1..Len(mods) : mods[i].id = id
\* the relay node wire k sends into: the throw~ of its bus, or its own send
RelayIn(k) ==
    IF AudioWire(modules, wiring[k]) THEN RelayOf(allNodes, <<"throw~">>, wiring[k])
    ELSE SendOf(k)
\* the relay node wire k receives from: the catch~ of its bus, or its own receive
RelayOut(k) ==
    IF AudioWire(modules, wiring[k]) THEN RelayOf(allNodes, <<"catch~">>, wiring[k])
    ELSE ReceiveOf(k)
\* the connections that are in the list after wire k and were not before it
CreatedBy(k) == Range(StateAfter(k).conns) \ Range(StateAfter(k - 1).conns)

(* C29: after a successful applyWiring every wire of the batch is realised *)
(* in the final connection list: some connection leads from the wire's     *)
(* catch~ or receive node to a node of the wire's destination module, the  *)
(* connection from the source port's node into the wire's throw~ or send   *)
(* node is present, and every connection a wire created is still there.    *)
C29_AsClaimed ==
    (Succeeded /\ Len(wiring) > 0) =>
        \A k \in 1..Len(wiring) :
            LET w == wiring[k]
            IN  /\ \E c \in Range(allConnections) :
                      /\ c.from = RelayOut(k)
                      /\ c.to \in RangeOf(modules, ModIndex(modules, w.to))
                /\ Conn(FromAbs(modules, w), OutPortOf(modules, w).port, RelayIn(k), 0)
                      \in Range(allConnections)
                /\ CreatedBy(k) \subseteq Range(allConnections)

-----------------------------------------------------------------------------
(* Vocabulary of the serialization claim *)

\* the lines of a canvas when the body of its k-th subpatch stands
\* immediately before the line of its k-th placeholder node
RECURSIVE BodyBeforePlaceholder(_, _)
BodyBeforePlaceholder(heap, id) ==
    LET canvas == heap[id + 1]
        nodes  == canvas.nodes
        Rank(i) == Cardinality({j \in 1..i : IsPlaceholder(nodes[j])})
        LinesOf(i) ==
            IF IsPlaceholder(nodes[i]) /\ Rank(i) <= Len(canvas.subpatches)
            THEN Append(BodyBeforePlaceholder(heap, canvas.subpatches[Rank(i)]),
                        nodes[i].raw \o <<";">>)
            ELSE << nodes[i].raw \o <<";">> >>
    IN  <<CanvasHeaderLine(canvas)>>
        \o Flatten([i \in 1..Len(nodes) |-> LinesOf(i)])
        \o [i \in 1..Len(canvas.connections) |-> ConnectLine(canvas.connections[i])]
\* the number of canvas-open lines among the lines
OpenLines(lines) == Cardinality({i \in 1..Len(lines) : IsCanvasOpen(lines[i])})
\* the text holds every canvas of the patch once, each subpatch right
\* before its own placeholder
EveryCanvasOnce(ast, text) ==
    LET lines == serializeCanvas(ast.canvases, ast.root)
    IN  /\ text = Join(lines, "\n") \o <<"\n">>
        /\ OpenLines(lines) = Cardinality(CanvasesUnder(ast.canvases, ast.root))
        /\ lines = BodyBeforePlaceholder(ast.canvases, ast.root)

=============================================================================
